---- MODULE Spec2Model ----
(***************************************************************************)
(* Cassandra2Aerospike: the SSTable merge-iteration engine.                *)
(*                                                                         *)
(* The model works at the level of the units the readers decode: a data    *)
(* file is a sequence of partitions, a partition a header (key, deletion   *)
(* time) followed by cells.  Keys and column names are byte strings in the *)
(* code; here a one-byte string is the number of its byte, so memcmp /     *)
(* strcmp order is the order of the numbers, and the empty string is 0.    *)
(* CMakeLists.txt sets no build type, so assert() is compiled in unless    *)
(* the builder asks for a release build; ndebug says which build runs.     *)
(* A reader that decodes past the row it was in reads bytes of the next    *)
(* unit as something else (and dereferences a null pointer at the end of   *)
(* the file): what follows depends on bytes the model does not hold, so a  *)
(* run ends there, in phase "overread"; every callback made up to that     *)
(* point stays in the log.                                                 *)
(*                                                                         *)
(* Beside the merge (Spec, SpecPeek with get_next_key, and SpecDrain with  *)
(* a caller that goes on calling after a false) the module                 *)
(* holds, each under a specification of its own: CassandraParser::open on  *)
(* one directory (SpecOpen), CompressedBuffer (SpecBuffer), the unsigned   *)
(* varint decoder (SpecVint), the end of Murmer3Partitioner::assign_token  *)
(* (SpecToken), the merge over a data file whose stream ends inside a      *)
(* header or a cell (SpecCut), an iterator and its copy (SpecCopy), the   *)
(* transfer of the rows by one AerospikeWriter (SpecTransfer), the main    *)
(* thread and the event-loop threads in write_next (SpecThreads, and       *)
(* SpecThreadsFair where every thread that can step does), and one reader  *)
(* called in the iterator's order (SpecReader).                            *)
(***************************************************************************)
EXTENDS Integers, Sequences, FiniteSets, TLC

VARIABLES
    ndebug,         \* TRUE when the build defines NDEBUG (assert() compiles to nothing)
    files,          \* the -Data.db files on disk (with what -Index.db / -Summary.db say of them)
    phase,          \* "new": no iterator yet; "iter": iterator built; "abort": assert() failed;
                    \* "overread": a reader decoded bytes past the row it was in;
                    \* "crash": a reader dereferenced NULL at the end of its stream
    m_tables,       \* iterator::m_tables, a sequence of readers
    m_next_table,   \* iterator::m_next_table (0-based, as in the code)
    m_active_tables,\* iterator::m_active_tables (0-based indices)
    m_skippedRecords,
    m_cassandraReadRecords,
    sink,           \* the log: every callback made on the DatabaseRow and every return
                    \* of next(), with the locals of next_record at "matched" (one turn
                    \* of its column loop) and "next_record" (its return)
    start,          \* how the iterator was built: <<"begin">> or <<"find", key>>
    peeked,         \* what get_next_key gave its caller since the last call of next():
                    \* <<>> if it was not called, else <<[ret, key]>> of its last call
    opening,        \* CassandraParser::open at work on a directory: the entries readdir
                    \* gives, how many it has taken, the parser's members, its return
    cbuf,           \* one CompressedBuffer over a compressed data file, with the process
                    \* that reads from it
    vint,           \* one call of Buffer::read_unsigned_vint: the buffer it reads, the
                    \* value it returns and how the buffer stands after it
    twin,           \* the copy made of the iterator, the readers whose data buffer
                    \* it shares with the original, and each side's readers as
                    \* its own last call left them; <<>> while there is no copy
    transfer,       \* the AerospikeWriter of a transfer and the rows it has drawn from
                    \* the iterator; <<>> while nothing is transferred
    hashed,         \* one call of Murmer3Partitioner::assign_token: the hash h1 it has
                    \* finalized and the token it stores
    threads,        \* the main thread and the event-loop threads of do_transfer: where
                    \* each stands in write_next, the iterator mutex and the writers'
                    \* counters; <<>> while no thread runs
    reader          \* one reader driven by hand over one data file: the reader, the
                    \* member function called last and what it returned

vars == <<ndebug, files, phase, m_tables, m_next_table, m_active_tables,
          m_skippedRecords, m_cassandraReadRecords, sink, start, peeked, twin,
          transfer, opening, cbuf, vint, hashed, threads, reader>>

\* The variables of the merge iterator and of its caller.
merging == <<ndebug, files, phase, m_tables, m_next_table, m_active_tables,
             m_skippedRecords, m_cassandraReadRecords, sink, start, peeked, twin,
             transfer>>

\* The variables of the other units, which a run of the merge leaves alone.
aside == <<opening, cbuf, vint, hashed, threads, reader>>

---------------------------------------------------------------------------
(* Bounds of the input family *)

NumFiles == 2       \* data files in the directory
MaxParts == 2       \* partitions in one file
MaxCells == 2       \* cells in one partition
NumKeys  == 3       \* partition keys are 1..NumKeys
NumNames == 2       \* column names are 1..NumNames
MaxTs    == 2       \* timestamps are 1..MaxTs
MaxCalls == 4       \* calls of next() in one run
Writers  == 1       \* callers drawing from the iterator; each stops at its first false

Keys  == 1..NumKeys
Names == 1..NumNames
Stamps == 1..MaxTs

\* SStable::STILL_ACTIVE is INT64_MIN in the code: the least value a timestamp
\* field can hold.  TLC's integers are 32 bits wide; the model uses the least
\* value it can hold safely.  No timestamp of the input family equals it.
STILL_ACTIVE == -2147483647

Versions == {"preJA", "JA", "MA"}

---------------------------------------------------------------------------
(* Partitioner (Partitioners.cpp) *)

\* Murmer3Partitioner::assign_token is a hash of the key bytes; the model keeps
\* what the merge depends on: it is a function of the key alone, the empty key
\* hashes to 0 (no block, no tail, fmix(0) = 0), tokens of both signs occur,
\* two keys may share a token, and token order is not key order.
assign_token(key) == IF key = 0 THEN 0 ELSE IF key % 3 = 1 THEN 1 ELSE -1

\* Murmer3Partitioner::compare_token: the signed token first, then the key
\* bytes, then the key length.
compare_token(tokenA, keyA, tokenB, keyB) ==
    IF tokenA < tokenB THEN -1
    ELSE IF tokenA > tokenB THEN 1
    ELSE IF keyA < keyB THEN -1
    ELSE IF keyA > keyB THEN 1
    ELSE 0

KeyLess(a, b) == compare_token(assign_token(a), a, assign_token(b), b) < 0

---------------------------------------------------------------------------
(* Input files *)

\* The payload of a cell is opaque to the merge; each cell of the family carries
\* a payload that names its place, so that a delivered value tells its cell.
Val(f, p, c) == f * 100 + p * 10 + c

\* A cell as written in the data file.  kind: "live", "del" (DELETION_MASK /
\* IS_DELETED), "exp" (EXPIRATION_MASK / IS_EXPIRING), "rt" (RANGE_TOMBSTONE_MASK,
\* end = the end key).  empty: HAS_EMPTY_VALUE (format MA only).
\* ttl and expiration are what the file stores for an expiring cell.
Cell(name, ts, kind, end, empty) ==
    [name |-> name, ts |-> ts, kind |-> kind, end |-> end, empty |-> empty,
     ttl |-> IF kind = "exp" THEN 10 + ts ELSE 0,
     expiration |-> IF kind = "exp" THEN 20 + ts ELSE 0]

\* Rank within one name: a range tombstone is written before the cell it starts at.
Rank(c) == IF c.kind = "rt" THEN 0 ELSE 1

CellBefore(a, b) == a.name < b.name \/ (a.name = b.name /\ Rank(a) < Rank(b))

SortedCells(cs) == \A i \in 1..(Len(cs) - 1) : CellBefore(cs[i], cs[i + 1])

SortedParts(ps) == \A i \in 1..(Len(ps) - 1) : KeyLess(ps[i].key, ps[i + 1].key)

SeqsUpTo(S, n) == UNION {[1..k -> S] : k \in 0..n}

Range(q) == {q[i] : i \in DOMAIN q}

MinOf(S) == CHOOSE i \in S : \A j \in S : i <= j

\* Cells of the pre-modern formats: any flag, range tombstones with end >= start.
OldCells ==
    {Cell(n, t, k, 0, FALSE) : n \in Names, t \in Stamps, k \in {"live", "del", "exp"}}
    \cup {Cell(c[1], c[2], "rt", c[3], FALSE) :
            c \in {x \in Names \X Stamps \X Names : x[3] >= x[1]}}

\* Cells of the modern format: a deleted cell has no value (Cassandra sets
\* HAS_EMPTY_VALUE whenever the value has no bytes), a live cell may have none.
NewCells ==
    {Cell(n, t, "live", 0, e) : n \in Names, t \in Stamps, e \in BOOLEAN}
    \cup {Cell(n, t, "del", 0, TRUE) : n \in Names, t \in Stamps}
    \cup {Cell(n, t, "exp", 0, FALSE) : n \in Names, t \in Stamps}

\* A partition as written: its key, its deletion time (STILL_ACTIVE when the
\* partition was never deleted), its cells.
Partition(key, mfd, cells) == [key |-> key, mfd |-> mfd, cells |-> cells]

CellsIn(ver) == IF ver = "MA" THEN NewCells ELSE OldCells

\* The modern format stores a row's cells one per column of the schema.
WellFormedCells(ver, cs) ==
    /\ SortedCells(cs)
    /\ ver = "MA" => \A i \in 1..(Len(cs) - 1) : cs[i].name < cs[i + 1].name

CellSeqs(ver, n) == {cs \in SeqsUpTo(CellsIn(ver), n) : WellFormedCells(ver, cs)}

\* Files that differ in their keys.  A partition is live with one cell, or
\* deleted after its one cell was written, or deleted with no cell left; the
\* first file has up to MaxParts partitions, the others one.
KeyContents ==
    {<<STILL_ACTIVE, <<Cell(1, 1, "live", 0, FALSE)>> >>,
     <<MaxTs, <<Cell(1, 1, "live", 0, FALSE)>> >>,
     <<MaxTs, <<>> >>}

KeyParts(n) ==
    {ps \in SeqsUpTo({Partition(k, d[1], d[2]) : k \in Keys, d \in KeyContents}, n) :
        Len(ps) >= 1 /\ SortedParts(ps)}

KeyFamily ==
    {[f \in 1..NumFiles |-> [ver |-> v, parts |-> IF f = 1 THEN r ELSE ps[f]]] :
        v \in Versions, r \in KeyParts(MaxParts), ps \in [2..NumFiles -> KeyParts(1)]}

\* Files that hold the same partition: the first with up to MaxCells cells, or a
\* deletion time and up to one cell; the others with up to one cell, or a
\* deletion time and none.  (The two old formats
\* share the cell decoder; they differ in how a row ends, which KeyFamily covers.)
RichParts(ver) ==
    {<<Partition(2, STILL_ACTIVE, cs)>> : cs \in CellSeqs(ver, MaxCells)}
    \cup {<<Partition(2, d, cs)>> : d \in Stamps, cs \in CellSeqs(ver, 1)}

PlainParts(ver) ==
    {<<Partition(2, STILL_ACTIVE, cs)>> : cs \in CellSeqs(ver, 1)}
    \cup {<<Partition(2, d, <<>>)>> : d \in Stamps}

CellFamily ==
    UNION {{[f \in 1..NumFiles |-> [ver |-> v, parts |-> IF f = 1 THEN r ELSE ps[f]]] :
              r \in RichParts(v), ps \in [2..NumFiles -> PlainParts(v)]} : v \in {"JA", "MA"}}

FileSets == KeyFamily \cup CellFamily

---------------------------------------------------------------------------
(* SStable readers (SSTable.cpp, SSTable.hpp) *)

\* CassandraParser::ColumnInfo as its constructor leaves it.  data is the end
\* key of a range tombstone; ttl and expiration are the union extra_data,
\* zeroed through counter_timestamp.
ColumnInfo ==
    [name |-> 0, ts |-> 0, deleted |-> FALSE, expiring |-> FALSE,
     range_tombstone |-> FALSE, data |-> 0, ttl |-> 0, expiration |-> 0]

\* ColumnInfo::clear_flags
clear_flags(col) ==
    [col EXCEPT !.deleted = FALSE, !.expiring = FALSE, !.range_tombstone = FALSE]

\* The reader over file f as SStable::create_table builds it.  p, c: the place
\* of the data buffer (p partitions' headers read, c cells of partition p read);
\* fault: "assert" once an assert() of the reader failed, "overread" once it
\* decoded a cell where the row holds no more.
create_table(f) ==
    [f |-> f, ver |-> files[f].ver,
     isopen |-> FALSE, eof |-> FALSE, p |-> 0, c |-> 0,
     next_key_value |-> 0, next_token_value |-> 0,
     row_marked_for_deletion |-> 0, start_offset |-> 0,
     next_column_info |-> ColumnInfo, fsm |-> "READ_ROW",
     remaining_columns |-> 0,
     at_end_of_partition |-> TRUE, partition_marked_for_deletion |-> 0,
     columns_present |-> {}, columns_present_size |-> 0, this_column_index |-> 0,
     fault |-> "none"]

Parts(t) == files[t.f].parts
CellsOf(t) == Parts(t)[t.p].cells

\* SStable::open: a fresh buffer, sought to start_offset; fsm = READ_ROW; reset().
open(t) ==
    [t EXCEPT !.isopen = TRUE, !.eof = FALSE, !.p = t.start_offset, !.c = 0,
              !.fsm = "READ_ROW",
              !.at_end_of_partition = IF t.ver = "MA" THEN TRUE ELSE @]

\* SStable::close
close(t) == [t EXCEPT !.isopen = FALSE]

\* The cell under the buffer, as OldSStable::read_column decodes it.
OldDecode(col, cell) ==
    IF cell.kind = "rt"
    THEN [col EXCEPT !.name = cell.name, !.deleted = FALSE, !.data = cell.end,
                     !.ts = cell.ts, !.range_tombstone = TRUE]
    ELSE [col EXCEPT !.name = cell.name, !.deleted = (cell.kind = "del"),
                     !.expiring = (cell.kind = "exp"),
                     !.ttl = IF cell.kind = "exp" THEN cell.ttl ELSE @,
                     !.expiration = IF cell.kind = "exp" THEN cell.expiration ELSE @,
                     !.ts = cell.ts]

\* A reader whose assert() failed, and a reader that decoded bytes of the next
\* unit as a cell.
failed_assert(t) == [t EXCEPT !.fault = "assert"]
overread(t) == [t EXCEPT !.fault = "overread"]

\* Where the data stream of the file ends.  "none": after its last partition.
\* Inside the header of one more partition (the record torn): "key", within the
\* key's length or bytes; "deletion", after the key.  Inside one more cell of
\* the last partition (the cell torn): "name", within the name's length or
\* bytes; "flags", after the name; "stamp", after the flags byte; "value",
\* after the timestamp.
CellCuts == {"name", "flags", "stamp", "value"}
Cut(t) == IF "cut" \in DOMAIN files[t.f] THEN files[t.f].cut ELSE "none"
Torn(t) == files[t.f].torn

\* The buffer stands at the torn cell, and behind what the file holds of it.
AtTorn(t) == Cut(t) \in CellCuts /\ t.p = Len(Parts(t)) /\ t.c = Len(CellsOf(t))
PastTorn(t) == Cut(t) \in CellCuts /\ t.p = Len(Parts(t)) /\ t.c > Len(CellsOf(t))

\* What the reads behind the end of the stream leave: read_from_buffer returns
\* 0 and read_string the empty string where read_bytes returned NULL.
Unread(cell) == [cell EXCEPT !.ts = 0, !.end = 0, !.ttl = 0, !.expiration = 0]

\* OldSStable::read_column from the read of the name on, at the torn cell.
\* Buffer::read_byte dereferences what read_bytes returned: at the end of the
\* stream that is NULL, and the process ends ("null").
OldSStable_torn_cell(t) ==
    IF Cut(t) = "name"
    THEN [t |-> [t EXCEPT !.next_column_info.name = 0, !.fsm = "READ_ROW", !.eof = TRUE],
          ret |-> FALSE]
    ELSE IF Cut(t) = "flags"
    THEN [t |-> [t EXCEPT !.next_column_info.name = Torn(t).name, !.eof = TRUE,
                          !.fault = "null"],
          ret |-> FALSE]
    ELSE [t |-> [t EXCEPT !.c = @ + 1,
                          !.next_column_info =
                              OldDecode(@, IF Cut(t) = "stamp" THEN Unread(Torn(t))
                                           ELSE Torn(t)),
                          !.eof = (Cut(t) = "stamp"),
                          !.fsm = IF Torn(t).kind = "rt" THEN "READ_COLUMN"
                                  ELSE "READ_COLUMN_DATA"],
          ret |-> TRUE]

\* "return data_buffer->is_eof()" at the end of read_row / read_normal_row.
at_eof(r) == [t |-> r.t, ret |-> r.t.eof]

\* OldSStable::read_column from the read of the name on.  With fsm = READ_ROW
\* (reachable only where assert() is compiled out) the buffer stands at a
\* partition header or at the end of the file, not at a cell.
OldSStable_read_cell(t) ==
    IF t.fsm = "READ_ROW"
    THEN IF t.p >= Len(Parts(t))
         THEN [t |-> [t EXCEPT !.next_column_info.name = 0, !.eof = TRUE], ret |-> FALSE]
         ELSE [t |-> overread(t), ret |-> FALSE]
    ELSE IF AtTorn(t)
    THEN OldSStable_torn_cell(t)
    ELSE IF t.c >= Len(CellsOf(t))
    THEN \* the empty name that ends the row, or the end of the stream
         [t |-> [t EXCEPT !.next_column_info.name = 0, !.fsm = "READ_ROW",
                          !.eof = @ \/ PastTorn(t)],
          ret |-> FALSE]
    ELSE [t |-> [t EXCEPT !.c = @ + 1,
                          !.next_column_info = OldDecode(@, CellsOf(t)[t.c + 1]),
                          !.fsm = IF CellsOf(t)[t.c + 1].kind = "rt" THEN "READ_COLUMN"
                                  ELSE "READ_COLUMN_DATA"],
          ret |-> TRUE]

\* OldSStable::read_column from clear_flags on: the column count of the formats
\* before JA, then the cell.
OldSStable_count_column(t) ==
    IF t.ver = "preJA"
    THEN IF t.remaining_columns = 0
         THEN [t |-> [t EXCEPT !.next_column_info.name = 0], ret |-> FALSE]
         ELSE OldSStable_read_cell([t EXCEPT !.remaining_columns = @ - 1])
    ELSE OldSStable_read_cell(t)

\* OldSStable::read_column from its assert on.
OldSStable_checked_column(t) ==
    IF t.fsm # "READ_COLUMN" /\ ~ndebug
    THEN [t |-> failed_assert(t), ret |-> FALSE]
    ELSE OldSStable_count_column([t EXCEPT !.next_column_info = clear_flags(@)])

\* OldSStable::read_column.  Returns [t, ret].
OldSStable_read_column(t) ==
    OldSStable_checked_column(
        IF t.fsm = "READ_COLUMN_DATA" THEN [t EXCEPT !.fsm = "READ_COLUMN"] ELSE t)

\* The partition header as OldSStable::read_row reads it.
OldSStable_header(t, part) ==
    [t EXCEPT !.p = @ + 1, !.c = 0,
              !.next_key_value = part.key,
              !.next_token_value = assign_token(part.key),
              !.row_marked_for_deletion = part.mfd,
              !.remaining_columns = IF t.ver = "preJA" THEN Len(part.cells) ELSE @,
              !.fsm = "READ_COLUMN"]

\* OldSStable::read_row on a header torn after its key: the key is read and
\* its token assigned, the deletion time and the first name are read behind the
\* end of the stream.
OldSStable_torn_header(t) ==
    [t |-> [t EXCEPT !.next_key_value = Torn(t).key,
                     !.next_token_value = assign_token(Torn(t).key),
                     !.row_marked_for_deletion = 0,
                     !.next_column_info = [clear_flags(@) EXCEPT !.name = 0],
                     !.fsm = "READ_ROW", !.eof = TRUE],
     ret |-> TRUE]

\* OldSStable::read_row.  Returns [t, ret]; ret is true at the end of the file.
OldSStable_read_row(t) ==
    IF t.fsm # "READ_ROW" /\ ~ndebug
    THEN [t |-> failed_assert(t), ret |-> FALSE]
    ELSE IF t.p >= Len(Parts(t)) /\ Cut(t) = "deletion" /\ ~t.eof
    THEN OldSStable_torn_header(t)
    ELSE IF t.p >= Len(Parts(t))
    THEN [t |-> [t EXCEPT !.next_key_value = 0, !.eof = TRUE], ret |-> TRUE]
    ELSE at_eof(OldSStable_read_column(OldSStable_header(t, Parts(t)[t.p + 1])))

\* OldSStable::read_column_data.  Returns [t, data].
OldSStable_read_column_data(t) ==
    IF t.fsm # "READ_COLUMN_DATA"
    THEN [t |-> IF ndebug THEN overread(t) ELSE failed_assert(t), data |-> 0]
    ELSE IF PastTorn(t) \/ t.eof
    THEN \* read_data fails: the string it was to fill stays empty
         [t |-> [t EXCEPT !.fsm = "READ_COLUMN", !.eof = TRUE], data |-> 0]
    ELSE [t |-> [t EXCEPT !.fsm = "READ_COLUMN"], data |-> Val(t.f, t.p, t.c)]

\* The regular columns of the schema are the names 1..NumNames, in that order;
\* this_column_index is 0-based, column i has name i + 1.  columns_present is
\* the set of the names whose bit is set, columns_present_size the vector's size.
\* NewSStable::next_column
next_column(t) ==
    LET here == {i \in t.this_column_index..(t.columns_present_size - 1) :
                     (i + 1) \in t.columns_present}
    IN [t EXCEPT !.fsm = "READ_COLUMN",
                 !.this_column_index =
                     IF here # {} THEN MinOf(here)
                     ELSE IF @ < t.columns_present_size THEN t.columns_present_size
                     ELSE @]

\* NewSStable::read_column_data.  Returns [t, data]; the empty value is 0.
NewSStable_read_column_data(t) ==
    IF t.fsm = "READ_COLUMN"
    THEN [t |-> t, data |-> 0]
    ELSE [t |-> next_column([t EXCEPT !.this_column_index = @ + 1]),
          data |-> Val(t.f, t.p, t.c)]

\* NewSStable::read_column from the read of the flags byte on: the name is the
\* schema's at this_column_index; the expiration time is read and dropped.
NewSStable_read_cell(t, cell) ==
    [t |-> [t EXCEPT !.c = @ + 1,
                     !.next_column_info.name = t.this_column_index + 1,
                     !.next_column_info.ts = cell.ts,
                     !.next_column_info.deleted = (cell.kind = "del"),
                     !.next_column_info.expiring = (cell.kind = "exp"),
                     !.next_column_info.ttl = IF cell.kind = "exp" THEN cell.ttl ELSE @,
                     !.fsm = IF cell.empty THEN @ ELSE "READ_COLUMN_DATA"],
     ret |-> TRUE]

\* NewSStable::read_column from its assert on.
NewSStable_checked_column(t) ==
    IF t.fsm # "READ_COLUMN" /\ ~ndebug
    THEN [t |-> failed_assert(t), ret |-> FALSE]
    ELSE IF t.this_column_index >= t.columns_present_size
    THEN [t |-> [t EXCEPT !.next_column_info = [clear_flags(@) EXCEPT !.name = 0],
                          !.fsm = "READ_ROW"],
          ret |-> FALSE]
    ELSE IF t.c >= Len(CellsOf(t))
    THEN \* the row holds no more cells: the bytes decoded are the next unit's
         [t |-> overread(t), ret |-> FALSE]
    ELSE NewSStable_read_cell([t EXCEPT !.next_column_info = clear_flags(@)],
                              CellsOf(t)[t.c + 1])

\* NewSStable::read_column.  Returns [t, ret].
NewSStable_read_column(t) ==
    NewSStable_checked_column(
        IF t.fsm = "READ_COLUMN_DATA" THEN NewSStable_read_column_data(t).t ELSE t)

\* NewSStable::read_normal_row, for a row without clustering columns, row
\* timestamp, row ttl or row deletion.  Returns [t, ret].
read_normal_row(t) ==
    at_eof(NewSStable_read_column(next_column(
        [t EXCEPT !.row_marked_for_deletion = t.partition_marked_for_deletion,
                  !.columns_present = {CellsOf(t)[i].name : i \in 1..Len(CellsOf(t))},
                  !.columns_present_size = NumNames,
                  !.this_column_index = 0])))

\* The partition header as NewSStable::read_row reads it.
NewSStable_header(t, part) ==
    [t EXCEPT !.p = @ + 1, !.c = 0,
              !.next_key_value = part.key,
              !.partition_marked_for_deletion = part.mfd,
              !.next_token_value = assign_token(part.key),
              !.at_end_of_partition = FALSE]

\* NewSStable::read_row.  A partition of the family holds one row or none, so
\* the flags byte read after a header is a row's when the partition has cells
\* and END_OF_PARTITION when it has none, and the flags byte read after a row
\* is END_OF_PARTITION.  Returns [t, ret].
RECURSIVE NewSStable_read_row(_)
NewSStable_read_row(t) ==
    IF t.at_end_of_partition
    THEN IF t.p >= Len(Parts(t))
         THEN [t |-> [t EXCEPT !.next_key_value = 0, !.eof = TRUE], ret |-> TRUE]
         ELSE IF Parts(t)[t.p + 1].cells = <<>>
         THEN NewSStable_read_row(
                  [NewSStable_header(t, Parts(t)[t.p + 1]) EXCEPT !.at_end_of_partition = TRUE])
         ELSE read_normal_row(NewSStable_header(t, Parts(t)[t.p + 1]))
    ELSE NewSStable_read_row([t EXCEPT !.at_end_of_partition = TRUE])

\* A read through data_buffer while the shared_ptr holds nothing (before open,
\* after close): the null pointer is dereferenced and the process ends
\* ("closed").
read_closed(t) == [t EXCEPT !.fault = "closed"]

\* The virtual members, called on a reader whose buffer may be open or not.
read_row(t) ==
    IF ~t.isopen THEN [t |-> read_closed(t), ret |-> FALSE]
    ELSE IF t.ver = "MA" THEN NewSStable_read_row(t) ELSE OldSStable_read_row(t)
read_column(t) ==
    IF ~t.isopen THEN [t |-> read_closed(t), ret |-> FALSE]
    ELSE IF t.ver = "MA" THEN NewSStable_read_column(t) ELSE OldSStable_read_column(t)
read_column_data(t) ==
    IF ~t.isopen THEN [t |-> read_closed(t), data |-> 0]
    ELSE IF t.ver = "MA" THEN NewSStable_read_column_data(t)
    ELSE OldSStable_read_column_data(t)

\* SStable::init: open, read the first partition's header and first cell, close.
init(t) == close(read_row(open(t)).t)

\* SStable::find_partition_in_summary: the binary search over the summary's
\* records.  The summary of a file of the family samples every partition, so
\* its records are the index's, record i (0-based) pointing at index entry i.
\* lower is -1 for the null pointer; the result is the entry found, or -1.
RECURSIVE summary_search(_, _, _, _, _, _)
summary_step(ps, first_token, first_key, bottom, top, lower, middle, comp) ==
    IF comp < 0 THEN summary_search(ps, first_token, first_key, bottom, middle - 1, lower)
    ELSE IF comp > 0 THEN summary_search(ps, first_token, first_key, middle + 1, top, middle)
    ELSE middle

summary_probe(ps, first_token, first_key, bottom, top, lower, middle) ==
    summary_step(ps, first_token, first_key, bottom, top, lower, middle,
                 compare_token(first_token, first_key,
                               assign_token(ps[middle + 1].key), ps[middle + 1].key))

summary_search(ps, first_token, first_key, bottom, top, lower) ==
    IF bottom < top
    THEN summary_probe(ps, first_token, first_key, bottom, top, lower,
                       bottom + ((top - bottom) \div 2))
    ELSE lower

find_partition_in_summary(t, first_token, first_key) ==
    summary_search(Parts(t), first_token, first_key, 0, Len(Parts(t)) - 1, -1)

\* One entry of the index as the loop of SStable::init_at_key reads it.  Entry j
\* (0-based) holds partition j + 1's key and its data position j.  A read at
\* the end of the index fails: read_string gives "", read_longlong gives 0.
index_entry(t, j, key) ==
    [t EXCEPT !.next_key_value = key,
              !.start_offset = IF j >= Len(Parts(t)) THEN 0 ELSE j,
              !.next_token_value = assign_token(key)]

\* The loop of SStable::init_at_key from entry j; is_eof is true only once a
\* read has failed.  Returns [t, ret].
RECURSIVE index_scan(_, _, _, _)
index_test(t, j, first_token, first_key) ==
    IF compare_token(first_token, first_key, t.next_token_value, t.next_key_value) <= 0
    THEN [t |-> t, ret |-> TRUE]
    ELSE IF j >= Len(Parts(t)) THEN [t |-> t, ret |-> FALSE]
    ELSE index_scan(t, j + 1, first_token, first_key)

index_scan(t, j, first_token, first_key) ==
    index_test(index_entry(t, j, IF j >= Len(Parts(t)) THEN 0 ELSE Parts(t)[j + 1].key),
               j, first_token, first_key)

\* SStable::init_at_key.  Returns [t, ret].
init_at_key(t, first_token, first_key) ==
    index_scan(t, IF find_partition_in_summary(t, first_token, first_key) >= 0
                  THEN find_partition_in_summary(t, first_token, first_key) ELSE 0,
               first_token, first_key)

---------------------------------------------------------------------------
(* CassandraParser::iterator (CassandraParser.cpp) *)

\* The iterator is the record it = [m_tables, m_next_table, m_active_tables,
\* m_skippedRecords, m_cassandraReadRecords, sink, fault].  Table indices are
\* 0-based as in the code; fault is "none" while the process runs on.
Tbl(it, index) == it.m_tables[index + 1]

SetTbl(it, index, t) ==
    [it EXCEPT !.m_tables[index + 1] = t,
               !.fault = IF t.fault # "none" THEN t.fault ELSE @]

Emit(it, ev) == [it EXCEPT !.sink = Append(@, ev)]

\* iterator::match_table; matches is the array's first n_matches entries.
\* Returns [matches, ret].
match_table(it, matches, index) ==
    LET a == Tbl(it, index)
        comparison ==
            IF Len(matches) > 0
            THEN LET smallest_table == Tbl(it, matches[1])
                 IN compare_token(a.next_token_value, a.next_key_value,
                                  smallest_table.next_token_value,
                                  smallest_table.next_key_value)
            ELSE -1
    IN IF comparison < 0 THEN [matches |-> <<index>>, ret |-> TRUE]
       ELSE IF comparison = 0 THEN [matches |-> Append(matches, index), ret |-> TRUE]
       ELSE [matches |-> matches, ret |-> FALSE]

\* iterator::activate_table, given what read_row returned on the opened table.
activated(it, index, r) ==
    [SetTbl(it, index, r.t) EXCEPT
        !.m_active_tables = IF r.t.fault = "none" /\ ~r.ret THEN @ \cup {index} ELSE @]

\* iterator::activate_table
activate_table(it, index) == activated(it, index, read_row(open(Tbl(it, index))))

\* deactivate_table without the erase: the reader would stay in the active set
\* with its buffer closed.
deactivate_table_keeping(it, index) == [it EXCEPT !.m_tables[index + 1] = close(@)]

\* iterator::deactivate_table
deactivate_table(it, index) ==
    [it EXCEPT !.m_tables[index + 1] = close(@),
               !.m_active_tables = @ \ {index}]

\* The first loop of find_first_row_matches: the active tables in set order.
RECURSIVE match_active(_, _, _)
match_active(it, matches, rest) ==
    IF rest = {} THEN matches
    ELSE match_active(it, match_table(it, matches, MinOf(rest)).matches,
                      rest \ {MinOf(rest)})

\* The second loop of find_first_row_matches.  Returns [it, matches].
RECURSIVE open_more(_, _)
open_matched(it, matches, r) ==
    IF r.ret
    THEN open_more(activate_table([it EXCEPT !.m_next_table = @ + 1], it.m_next_table),
                   r.matches)
    ELSE [it |-> it, matches |-> matches]

open_more(it, matches) ==
    IF it.fault = "none" /\ it.m_next_table < Len(it.m_tables)
    THEN open_matched(it, matches, match_table(it, matches, it.m_next_table))
    ELSE [it |-> it, matches |-> matches]

\* The assert that ends find_first_row_matches.
assert_matches(r) ==
    IF r.it.fault = "none" /\ ~ndebug
       /\ ~(Len(r.matches) > 0 \/ r.it.m_active_tables = {})
    THEN [it |-> [r.it EXCEPT !.fault = "assert"], matches |-> r.matches]
    ELSE r

\* iterator::find_first_row_matches.  Returns [it, matches].
find_first_row_matches(it) ==
    assert_matches(open_more(it, match_active(it, <<>>, it.m_active_tables)))

\* strcmp on two names.
strcmp(a, b) == IF a < b THEN -1 ELSE IF a = b THEN 0 ELSE 1

\* iterator::find_first_column_matches: the tables of matches whose next column
\* has the least name, in the order of matches.
RECURSIVE first_column_scan(_, _, _, _)
first_column_step(it, matches, i, matched_columns, comparision) ==
    first_column_scan(it, matches, i + 1,
        IF comparision < 0 THEN <<matches[i]>>
        ELSE IF comparision = 0 THEN Append(matched_columns, matches[i])
        ELSE matched_columns)

first_column_scan(it, matches, i, matched_columns) ==
    IF i > Len(matches) THEN matched_columns
    ELSE first_column_step(it, matches, i, matched_columns,
             IF matched_columns = <<>> THEN -1
             ELSE strcmp(Tbl(it, matches[i]).next_column_info.name,
                         Tbl(it, matched_columns[1]).next_column_info.name))

find_first_column_matches(it, matches) == first_column_scan(it, matches, 1, <<>>)

\* iterator::choose_latest_match: the index of the table chosen.
RECURSIVE latest_scan(_, _, _, _)
latest_scan(it, matched_columns, i, lastTs_index) ==
    IF i > Len(matched_columns) THEN lastTs_index
    ELSE latest_scan(it, matched_columns, i + 1,
             IF Tbl(it, matched_columns[i]).next_column_info.ts
                    > Tbl(it, lastTs_index).next_column_info.ts
             THEN matched_columns[i] ELSE lastTs_index)

choose_latest_match(it, matched_columns) ==
    latest_scan(it, matched_columns, 2, matched_columns[1])

\* The running maximum both loops of update_tombstones keep in minTime.
later(minTime, ts) == IF minTime = STILL_ACTIVE \/ minTime < ts THEN ts ELSE minTime

\* raise_entry without the test of the timestamp found: the entry would hold
\* the timestamp folded last.
raise_entry_last(tombstones, range_end, ts) ==
    [k \in DOMAIN tombstones \cup {range_end} |->
        IF k = range_end THEN ts ELSE tombstones[k]]

\* tombstones is the std::map, a function from end key to timestamp; this is
\* the map after "if (found == end || found->second < ts) tombstones[range_end] = ts".
raise_entry(tombstones, range_end, ts) ==
    IF range_end \notin DOMAIN tombstones
    THEN [k \in DOMAIN tombstones \cup {range_end} |->
             IF k = range_end THEN ts ELSE tombstones[k]]
    ELSE IF tombstones[range_end] < ts THEN [tombstones EXCEPT ![range_end] = ts]
    ELSE tombstones

\* The first loop of update_tombstones.  Returns [tombstones, minTime].
RECURSIVE add_tombstones(_, _, _, _, _)
add_tombstone(it, tombstones, minTime, matches, i, col) ==
    IF col.range_tombstone
    THEN add_tombstones(it, raise_entry(tombstones, col.data, col.ts),
                        later(minTime, col.ts), matches, i + 1)
    ELSE add_tombstones(it, tombstones, minTime, matches, i + 1)

add_tombstones(it, tombstones, minTime, matches, i) ==
    IF i > Len(matches) THEN [tombstones |-> tombstones, minTime |-> minTime]
    ELSE add_tombstone(it, tombstones, minTime, matches, i,
                       Tbl(it, matches[i]).next_column_info)

\* The recalculation of minTime over the entries left, in key order.
RECURSIVE recalculate(_, _, _)
recalculate(tombstones, rest, minTime) ==
    IF rest = {} THEN minTime
    ELSE recalculate(tombstones, rest \ {MinOf(rest)},
                     later(minTime, tombstones[MinOf(rest)]))

\* not_passed with upper_bound for lower_bound: an entry would be erased as
\* soon as the merge reaches its end key.
not_passed_upper_bound(tombstones, name) == {k \in DOMAIN tombstones : k > name}

\* The entries from tombstones.lower_bound(name) on.
not_passed(tombstones, name) == {k \in DOMAIN tombstones : ~(k < name)}

\* erase_passed without the erase: no entry would ever leave the map.
erase_passed_never(a, marked_for_deletion, name) == a

\* The second part of update_tombstones: erase what lies before lower_bound.
erase_passed(a, marked_for_deletion, name) ==
    IF not_passed(a.tombstones, name) # DOMAIN a.tombstones
    THEN [tombstones |-> [k \in not_passed(a.tombstones, name) |-> a.tombstones[k]],
          minTime |-> recalculate(a.tombstones, not_passed(a.tombstones, name),
                                  marked_for_deletion)]
    ELSE a

\* iterator::update_tombstones.  Returns [tombstones, minTime].
update_tombstones(it, tombstones, minTime, matches, marked_for_deletion, name) ==
    erase_passed(add_tombstones(it, tombstones, minTime, matches, 1),
                 marked_for_deletion, name)

\* "*position = matches[--n_matches]" with position = std::find(..., index).
remove_match(matches, index) ==
    SubSeq([matches EXCEPT ![CHOOSE j \in 1..Len(matches) : matches[j] = index]
                               = matches[Len(matches)]],
           1, Len(matches) - 1)

\* The for loop that ends an iteration of next_record's column loop: every
\* matched table moves on.  Returns [it, matches].
RECURSIVE move_on(_, _, _, _)
\* after read_row on a table whose row ended
row_read(it, matches, matched_columns, i, index, rr) ==
    move_on(IF rr.t.fault = "none" /\ rr.ret
            THEN deactivate_table(SetTbl(it, index, rr.t), index)
            ELSE SetTbl(it, index, rr.t),
            matches, matched_columns, i + 1)

\* after read_column on table index
column_read(it, matches, matched_columns, i, index, rc) ==
    IF rc.t.fault # "none" \/ rc.ret
    THEN move_on(SetTbl(it, index, rc.t), matches, matched_columns, i + 1)
    ELSE row_read(SetTbl(it, index, rc.t), remove_match(matches, index),
                  matched_columns, i, index, read_row(rc.t))

move_on(it, matches, matched_columns, i) ==
    IF i > Len(matched_columns) \/ it.fault # "none"
    THEN [it |-> it, matches |-> matches]
    ELSE column_read(it, matches, matched_columns, i, matched_columns[i],
                     read_column(Tbl(it, matched_columns[i])))

\* The test of next_record on the column chosen.
survives(name, nextColumn, minTime) ==
    name # 0 /\ ~nextColumn.deleted /\ (minTime = STILL_ACTIVE \/ minTime < nextColumn.ts)

\* The callback next_record makes for the column chosen.
callback(name, data, nextColumn) ==
    IF nextColumn.expiring
    THEN [op |-> "new_column_with_ttl", name |-> name, data |-> data,
          ts |-> nextColumn.ts, ttl |-> nextColumn.ttl,
          expiration |-> nextColumn.expiration]
    ELSE [op |-> "new_column", name |-> name, data |-> data, ts |-> nextColumn.ts]

\* The column loop of next_record.  Returns [it, has_columns].
RECURSIVE column_loop(_, _, _, _, _, _)
\* after the for loop over the matched columns
moved_on(m, u, marked_for_deletion, has_columns) ==
    column_loop(m.it, m.matches, u.tombstones, u.minTime, marked_for_deletion, has_columns)

\* after read_column_data on the table chosen
delivered(it, matches, matched_columns, u, marked_for_deletion, name, latest, d) ==
    IF d.t.fault # "none"
    THEN [it |-> SetTbl(it, latest, d.t), has_columns |-> FALSE]
    ELSE moved_on(move_on(Emit(SetTbl(it, latest, d.t),
                               callback(name, d.data, d.t.next_column_info)),
                          matches, matched_columns, 1),
                  u, marked_for_deletion, TRUE)

\* the test "if (!name.empty() && !nextColumn.deleted && ...)"
tested(it, matches, matched_columns, u, marked_for_deletion, has_columns, name, latest) ==
    IF survives(name, Tbl(it, latest).next_column_info, u.minTime)
    THEN delivered(it, matches, matched_columns, u, marked_for_deletion, name, latest,
                   read_column_data(Tbl(it, latest)))
    ELSE moved_on(move_on(it, matches, matched_columns, 1),
                  u, marked_for_deletion, has_columns)

\* after update_tombstones and choose_latest_match.  The log receives a
\* "matched" entry with the locals of this turn of the column loop.
chosen(it, matches, matched_columns, u, marked_for_deletion, has_columns, name, latest) ==
    tested(Emit(it, [op |-> "matched", name |-> name,
                     ts |-> Tbl(it, latest).next_column_info.ts,
                     deleted |-> Tbl(it, latest).next_column_info.deleted,
                     range_tombstone |-> Tbl(it, latest).next_column_info.range_tombstone,
                     tombstones |-> u.tombstones, minTime |-> u.minTime,
                     marked_for_deletion |-> marked_for_deletion]),
           matches, matched_columns, u, marked_for_deletion, has_columns, name, latest)

\* after find_first_column_matches
column_matched(it, matches, tombstones, minTime, marked_for_deletion, has_columns, matched_columns, name) ==
    chosen(it, matches, matched_columns,
           update_tombstones(it, tombstones, minTime, matches, marked_for_deletion, name),
           marked_for_deletion, has_columns, name,
           choose_latest_match(it, matched_columns))

first_matched(it, matches, tombstones, minTime, marked_for_deletion, has_columns, matched_columns) ==
    IF matched_columns = <<>>
    THEN [it |-> it, has_columns |-> has_columns]
    ELSE column_matched(it, matches, tombstones, minTime, marked_for_deletion,
                        has_columns, matched_columns,
                        Tbl(it, matched_columns[1]).next_column_info.name)

column_loop(it, matches, tombstones, minTime, marked_for_deletion, has_columns) ==
    IF it.fault # "none"
    THEN [it |-> it, has_columns |-> has_columns]
    ELSE first_matched(it, matches, tombstones, minTime, marked_for_deletion,
                       has_columns, find_first_column_matches(it, matches))

\* The fold of next_record over the matched tables' partition deletion times.
RECURSIVE fold_deletion(_, _, _, _)
fold_step(it, matches, i, marked_for_deletion, this_deletion) ==
    fold_deletion(it, matches, i + 1,
        IF this_deletion # STILL_ACTIVE
           /\ (marked_for_deletion = STILL_ACTIVE \/ marked_for_deletion < this_deletion)
        THEN this_deletion ELSE marked_for_deletion)

fold_deletion(it, matches, i, marked_for_deletion) ==
    IF i > Len(matches) THEN marked_for_deletion
    ELSE fold_step(it, matches, i, marked_for_deletion,
                   Tbl(it, matches[i]).row_marked_for_deletion)

\* The end of next_record, from ++m_cassandraReadRecords on.  Besides the
\* callbacks, the log receives one "next_record" entry when the function
\* returns after its column loop, with the values of its locals.
record_read(c, key, marked_for_deletion, skip) ==
    IF c.it.fault # "none"
    THEN [it |-> c.it, ret |-> FALSE]
    ELSE [it |-> Emit([c.it EXCEPT !.m_cassandraReadRecords = @ + 1,
                                   !.m_skippedRecords = IF skip THEN @ + 1 ELSE @],
                      [op |-> "next_record", key |-> key,
                       marked_for_deletion |-> marked_for_deletion,
                       has_columns |-> c.has_columns, ret |-> ~skip]),
          ret |-> ~skip]

\* columns_read without the test of has_columns: a deleted partition would be
\* skipped whatever it delivered.
columns_read_deleted(c, key, marked_for_deletion) ==
    record_read(c, key, marked_for_deletion, marked_for_deletion # STILL_ACTIVE)

columns_read(c, key, marked_for_deletion) ==
    record_read(c, key, marked_for_deletion,
                marked_for_deletion # STILL_ACTIVE /\ ~c.has_columns)

\* The partitions under the readers of the row-match set: <<file, partition>>.
merged_partitions(it, matches) ==
    {<<Tbl(it, matches[i]).f, Tbl(it, matches[i]).p>> :
        i \in {j \in 1..Len(matches) : ~Tbl(it, matches[j]).eof}}

\* The readers of the row-match set that are not in m_active_tables.
not_active(it, matches) ==
    {matches[i] : i \in 1..Len(matches)} \ it.m_active_tables

\* What marked_for_deletion() returns on the readers of the row-match set.
merged_deletions(it, matches) ==
    {Tbl(it, matches[i]).row_marked_for_deletion : i \in 1..Len(matches)}

\* next_record from new_row on, given the deletion time folded.  The log entry
\* of the callback also records which partitions the call merges, the
\* deletion times their readers carry and the readers merged that are not active.
row_matched(it, matches, key, marked_for_deletion) ==
    columns_read(column_loop(Emit(it, [op |-> "new_row", key |-> key,
                                       from |-> merged_partitions(it, matches),
                                       deletions |-> merged_deletions(it, matches),
                                       inactive |-> not_active(it, matches)]),
                             matches, <<>>,
                             marked_for_deletion, marked_for_deletion, FALSE),
                 key, marked_for_deletion)

\* next_record after find_first_row_matches.
rows_matched(f) ==
    IF f.it.fault # "none" \/ f.matches = <<>>
    THEN [it |-> f.it, ret |-> FALSE]
    ELSE row_matched(f.it, f.matches, Tbl(f.it, f.matches[1]).next_key_value,
                     fold_deletion(f.it, f.matches, 1, STILL_ACTIVE))

\* iterator::next_record.  Returns [it, ret].
next_record(it) == rows_matched(find_first_row_matches(it))

\* How far a reader has come: the partitions whose header it has read, and the
\* end of the file once it met it.
passed(t) == t.p + (IF t.eof THEN 1 ELSE 0)

\* A call of next_record that took the iterator from before to after moved a
\* reader on.
consumed(before, after) ==
    \E i \in DOMAIN before.m_tables :
        passed(after.m_tables[i]) > passed(before.m_tables[i])

\* The call of next_record on it that returned r, counted in standing when it
\* moved no reader on.
counted(it, r) ==
    IF r.it.fault = "none" /\ ~consumed(it, r.it)
    THEN [r EXCEPT !.it.standing = @ + 1]
    ELSE r

\* iterator::next.  Returns [it, ret]; the log receives a "next" entry when the
\* call returns, with the number of its calls of next_record that moved no
\* reader on.
RECURSIVE next(_)
\* the loop condition "while (!next_record(row))"
record_tried(r) ==
    IF r.it.fault # "none" THEN r
    ELSE IF r.ret
    THEN [it |-> Emit(r.it, [op |-> "next", ret |-> TRUE, standing |-> r.it.standing]),
          ret |-> TRUE]
    ELSE next(r.it)

\* the loop body after the test of m_active_tables
table_ready(it) ==
    record_tried(IF it.fault # "none" THEN [it |-> it, ret |-> FALSE]
                 ELSE counted(it, next_record(it)))

next(it) ==
    IF it.m_active_tables = {} /\ it.m_next_table >= Len(it.m_tables)
    THEN [it |-> Emit(it, [op |-> "next", ret |-> FALSE, standing |-> it.standing]),
          ret |-> FALSE]
    ELSE table_ready(IF it.m_active_tables = {}
                     THEN activate_table([it EXCEPT !.m_next_table = @ + 1], it.m_next_table)
                     ELSE it)

\* get_next_key after find_first_row_matches.  Returns [it, ret, key]; key is
\* <<k>> when the out parameter was assigned k, <<>> when it was left alone.
key_matched(f) ==
    IF f.it.fault # "none" \/ f.matches = <<>>
    THEN [it |-> f.it, ret |-> FALSE, key |-> <<>>]
    ELSE [it |-> f.it, ret |-> TRUE, key |-> <<Tbl(f.it, f.matches[1]).next_key_value>>]

\* iterator::get_next_key
get_next_key(it) ==
    IF it.m_active_tables = {} /\ it.m_next_table >= Len(it.m_tables)
    THEN [it |-> it, ret |-> FALSE, key |-> <<>>]
    ELSE key_matched(find_first_row_matches(it))

---------------------------------------------------------------------------
(* The program: one parser, one iterator built from it, calls of next *)

\* CassandraParser::Sorter
Sorter(a, b) ==
    compare_token(a.next_token_value, a.next_key_value,
                  b.next_token_value, b.next_key_value) < 0

\* What std::sort may leave: any arrangement of the readers in which no reader
\* stands before one that the Sorter puts first.
SortedOrders(tables) ==
    {r \in [DOMAIN tables -> Range(tables)] :
        /\ \A t \in Range(tables) :
              Cardinality({i \in DOMAIN r : r[i] = t})
                  = Cardinality({i \in DOMAIN tables : tables[i] = t})
        /\ \A i, j \in DOMAIN r : i < j => ~Sorter(r[j], r[i])}

\* The readers that pass the test of begin() / find(), in configuration order.
RECURSIVE Kept(_, _)
Kept(cands, f) ==
    IF f > NumFiles THEN <<>>
    ELSE (IF cands[f].ret THEN <<cands[f].t>> ELSE <<>>) \o Kept(cands, f + 1)

\* No directory is being opened: the parser is open already.
NotOpening == [listing |-> <<>>, taken |-> 0, m_keyspace |-> 0, m_tableName |-> 0,
               m_numFiles |-> 0, partitioner |-> "nullptr", ret |-> "none"]

\* No CompressedBuffer stands alone: the readers hold theirs.
NoBuffer == [stored |-> <<>>]

\* The state of the units that take no part in a run of the merge.
Parked ==
    /\ opening = NotOpening /\ cbuf = NoBuffer /\ vint = <<>> /\ hashed = <<>>
    /\ threads = <<>> /\ reader = <<>>

\* SStable::data_buffer is a shared_ptr and duplicate() copies the reader
\* member by member: a reader with its buffer open and its duplicate read
\* through one Buffer, until either is closed.  The place of the buffer and its
\* end-of-file flag are the buffer's; all else is the reader's own.
\* The readers `others` after a call that left the calling side's at `after`.
moved(others, after, shared) ==
    [i \in DOMAIN others |->
        IF (i - 1) \in shared
        THEN [others[i] EXCEPT !.p = after[i].p, !.c = after[i].c, !.eof = after[i].eof]
        ELSE others[i]]

\* SStable::close resets the pointer of the side that closes.
still_shared(shared, after) == {i \in shared : after[i + 1].isopen}

The_iterator ==
    [m_tables |-> m_tables, m_next_table |-> m_next_table,
     m_active_tables |-> m_active_tables, m_skippedRecords |-> m_skippedRecords,
     m_cassandraReadRecords |-> m_cassandraReadRecords, sink |-> sink, fault |-> "none",
     standing |-> 0]

Calls == Cardinality({i \in DOMAIN sink : sink[i].op = "next"})

\* The calls of next() that returned false.  A caller loops while next() returns
\* true (do_dry_run, AerospikeWriter::write_next).
Stops == Cardinality({i \in DOMAIN sink : sink[i].op = "next" /\ ~sink[i].ret})

Init ==
    /\ ndebug \in BOOLEAN
    /\ files \in FileSets
    /\ phase = "new"
    /\ m_tables = <<>>
    /\ m_next_table = 0
    /\ m_active_tables = {}
    /\ m_skippedRecords = 0
    /\ m_cassandraReadRecords = 0
    /\ sink = <<>>
    /\ start = <<"none">>
    /\ peeked = <<>>
    /\ twin = <<>>
    /\ transfer = <<>>
    /\ Parked

\* The iterator constructor, on the readers begin() or find() kept and sorted.
\* Where the init of a reader dereferenced NULL the process has ended.
Construct(tables, how) ==
    /\ m_tables' \in SortedOrders(tables)
    /\ m_next_table' = 0
    /\ m_active_tables' = {}
    /\ m_skippedRecords' = 0
    /\ m_cassandraReadRecords' = 0
    /\ phase' = IF \E i \in DOMAIN tables : tables[i].fault \in {"null", "closed"} THEN "crash"
                 ELSE "iter"
    /\ start' = how
    /\ UNCHANGED <<ndebug, files, sink, peeked, twin, transfer, aside>>

\* CassandraParser::begin
Begin ==
    /\ phase = "new"
    /\ Construct(Kept([f \in 1..NumFiles |-> [t |-> init(create_table(f)), ret |-> TRUE]], 1),
                 <<"begin">>)

\* CassandraParser::find
Find(primaryKey) ==
    /\ phase = "new"
    /\ Construct(Kept([f \in 1..NumFiles |->
                          init_at_key(create_table(f), assign_token(primaryKey), primaryKey)], 1),
                 <<"find", primaryKey>>)

\* One call of iterator::next by the program.
\* What the call leaves in the program's state, given what next() returned.
next_returned(r) ==
    /\ m_tables' = r.it.m_tables
    /\ m_next_table' = r.it.m_next_table
    /\ m_active_tables' = r.it.m_active_tables
    /\ m_skippedRecords' = r.it.m_skippedRecords
    /\ m_cassandraReadRecords' = r.it.m_cassandraReadRecords
    /\ sink' = r.it.sink
    /\ phase' = IF r.it.fault = "assert" THEN "abort"
                ELSE IF r.it.fault = "overread" THEN "overread"
                ELSE IF r.it.fault \in {"null", "closed"} THEN "crash"
                ELSE "iter"
    /\ twin' = IF twin = <<>> THEN twin
               ELSE [it |-> [twin.it EXCEPT !.m_tables =
                                 moved(@, r.it.m_tables, twin.shared)],
                     shared |-> still_shared(twin.shared, r.it.m_tables),
                     own |-> r.it.m_tables,
                     theirs |-> twin.theirs]

Next_call ==
    /\ phase = "iter"
    /\ Calls < MaxCalls
    /\ Stops < Writers
    /\ next_returned(next(The_iterator))
    /\ peeked' = <<>>
    /\ UNCHANGED <<ndebug, files, start, transfer, aside>>

\* One call of iterator::get_next_key by the program.
Get_next_key_call ==
    /\ phase = "iter"
    /\ LET r == get_next_key(The_iterator)
       IN /\ m_tables' = r.it.m_tables
          /\ m_next_table' = r.it.m_next_table
          /\ m_active_tables' = r.it.m_active_tables
          /\ phase' = IF r.it.fault = "assert" THEN "abort"
                      ELSE IF r.it.fault = "overread" THEN "overread"
                      ELSE IF r.it.fault \in {"null", "closed"} THEN "crash"
                      ELSE "iter"
          /\ peeked' = IF r.it.fault = "none" THEN <<[ret |-> r.ret, key |-> r.key]>>
                       ELSE peeked
    /\ UNCHANGED <<ndebug, files, start, sink, m_skippedRecords, m_cassandraReadRecords,
                   twin, transfer, aside>>

Next ==
    \/ Begin
    \/ \E primaryKey \in Keys : Find(primaryKey)
    \/ Next_call

Spec == Init /\ [][Next]_vars

\* The program that also asks for the next key between its calls of next(), on
\* the files that differ in their keys.
InitPeek ==
    /\ ndebug \in BOOLEAN
    /\ files \in KeyFamily
    /\ phase = "new"
    /\ m_tables = <<>>
    /\ m_next_table = 0
    /\ m_active_tables = {}
    /\ m_skippedRecords = 0
    /\ m_cassandraReadRecords = 0
    /\ sink = <<>>
    /\ start = <<"none">>
    /\ peeked = <<>>
    /\ twin = <<>>
    /\ transfer = <<>>
    /\ Parked

NextPeek ==
    \/ Begin
    \/ \E primaryKey \in Keys : Find(primaryKey)
    \/ Next_call
    \/ Get_next_key_call

SpecPeek == InitPeek /\ [][NextPeek]_vars

\* The partitions the files hold from file f on.
RECURSIVE TotalParts(_)
TotalParts(f) == IF f > NumFiles THEN 0 ELSE Len(files[f].parts) + TotalParts(f + 1)

\* One call of iterator::next by a program that keeps calling, whatever the
\* calls before returned (write_next calls next from every listener).  The
\* calls watched are one for each partition of the files and two more.
Next_repeated ==
    /\ phase = "iter"
    /\ Calls <= TotalParts(1) + 1
    /\ next_returned(next(The_iterator))
    /\ peeked' = <<>>
    /\ UNCHANGED <<ndebug, files, start, transfer, aside>>

\* The program that calls next again and again and asks for the next key in
\* between, on the files that differ in their keys.
NextDrain ==
    \/ Begin
    \/ \E primaryKey \in Keys : Find(primaryKey)
    \/ Next_repeated
    \/ Get_next_key_call

SpecDrain == InitPeek /\ [][NextDrain]_vars

\* The program on a first file of format JA whose data stream ends inside a
\* partition header or a cell, and a second, whole file with one partition of
\* one live cell, written later than all of the first file.
\* The whole partitions hold one live cell each; the torn cell is the first or
\* the second of the last partition, the torn header follows the last partition.
CutParts ==
    {ps \in SeqsUpTo({Partition(k, STILL_ACTIVE, <<Cell(1, 1, "live", 0, FALSE)>>) :
                         k \in Keys}, MaxParts - 1) : SortedParts(ps)}

CutFiles ==
    {f \in {[ver |-> "JA",
             parts |-> Append(ps, Partition(k, STILL_ACTIVE, cs)),
             cut |-> c, torn |-> Cell(2, 1, kind, 0, FALSE)] :
               ps \in CutParts, k \in Keys,
               cs \in {<<>>, <<Cell(1, 1, "live", 0, FALSE)>>},
               c \in CellCuts, kind \in {"live", "del", "exp"}} :
        SortedParts(f.parts)}
    \cup {f \in {[ver |-> "JA", parts |-> ps, cut |-> c,
                   torn |-> Partition(k, STILL_ACTIVE, <<>>)] :
                     ps \in CutParts, c \in {"key", "deletion"}, k \in Keys} :
             SortedParts(Append(f.parts, f.torn))}

CutFamily ==
    {[f \in 1..NumFiles |->
         IF f = 1 THEN c
         ELSE [ver |-> "JA",
               parts |-> <<Partition(w[1], STILL_ACTIVE, <<Cell(w[2], MaxTs, "live", 0, FALSE)>>)>>]] :
        c \in CutFiles, w \in Keys \X Names}

InitCut ==
    /\ ndebug \in BOOLEAN
    /\ files \in CutFamily
    /\ phase = "new"
    /\ m_tables = <<>>
    /\ m_next_table = 0
    /\ m_active_tables = {}
    /\ m_skippedRecords = 0
    /\ m_cassandraReadRecords = 0
    /\ sink = <<>>
    /\ start = <<"none">>
    /\ peeked = <<>>
    /\ twin = <<>>
    /\ transfer = <<>>
    /\ Parked

NextCut == Begin \/ Next_call

SpecCut == InitCut /\ [][NextCut]_vars

\* The program that copies its iterator and draws from both.  The files are of
\* format JA and every partition holds one live cell and no deletion, so that
\* between two calls an open buffer stands before the value of a partition's
\* first cell, or at its end.
CopyParts(n, ts) ==
    {ps \in SeqsUpTo({Partition(k, STILL_ACTIVE, <<Cell(1, ts, "live", 0, FALSE)>>) :
                         k \in Keys}, n) : Len(ps) >= 1 /\ SortedParts(ps)}

CopyFamily ==
    {[f \in 1..NumFiles |-> [ver |-> "JA", parts |-> IF f = 1 THEN r ELSE ps[f]]] :
        r \in CopyParts(MaxParts, 1), ps \in [2..NumFiles -> CopyParts(1, MaxTs)]}

\* iterator::iterator(const iterator & other)
Copy ==
    /\ phase = "iter"
    /\ twin = <<>>
    /\ twin' = [it |-> [The_iterator EXCEPT !.sink = <<>>],
                shared |-> {i \in 0..(Len(m_tables) - 1) : m_tables[i + 1].isopen},
                own |-> m_tables, theirs |-> m_tables]
    /\ UNCHANGED <<ndebug, files, phase, m_tables, m_next_table, m_active_tables,
                   m_skippedRecords, m_cassandraReadRecords, sink, start, peeked,
                   transfer, aside>>

\* One call of iterator::next on the copy.
Copy_next ==
    /\ phase = "iter"
    /\ twin # <<>>
    /\ Cardinality({i \in DOMAIN twin.it.sink : twin.it.sink[i].op = "next"}) < MaxCalls
    /\ \A i \in DOMAIN twin.it.sink : twin.it.sink[i].op = "next" => twin.it.sink[i].ret
    /\ LET r == next(twin.it)
       IN /\ twin' = [it |-> [r.it EXCEPT !.fault = "none"],
                      shared |-> still_shared(twin.shared, r.it.m_tables),
                      own |-> twin.own,
                      theirs |-> r.it.m_tables]
          /\ m_tables' = moved(m_tables, r.it.m_tables, twin.shared)
          /\ phase' = IF r.it.fault = "assert" THEN "abort"
                      ELSE IF r.it.fault = "overread" THEN "overread"
                      ELSE IF r.it.fault \in {"null", "closed"} THEN "crash"
                      ELSE "iter"
    /\ UNCHANGED <<ndebug, files, m_next_table, m_active_tables, m_skippedRecords,
                   m_cassandraReadRecords, sink, start, peeked, transfer, aside>>

InitCopy ==
    /\ ndebug \in BOOLEAN
    /\ files \in CopyFamily
    /\ phase = "new"
    /\ m_tables = <<>>
    /\ m_next_table = 0
    /\ m_active_tables = {}
    /\ m_skippedRecords = 0
    /\ m_cassandraReadRecords = 0
    /\ sink = <<>>
    /\ start = <<"none">>
    /\ peeked = <<>>
    /\ twin = <<>>
    /\ transfer = <<>>
    /\ Parked

NextCopy == Begin \/ Next_call \/ Copy \/ Copy_next

SpecCopy == InitCopy /\ [][NextCopy]_vars

---------------------------------------------------------------------------
(* The transfer: one AerospikeWriter drawing from the iterator (Utilities.cpp,
   do_transfer and wait_for_writers of the main program) *)

MaxInFlight == 2    \* s_max_requests_in_flight
MaxErrors   == 2    \* transient errors in one transfer

\* What DatabaseRowWithWriter::write comes back with: the status of
\* aerospike_key_put_async (AEROSPIKE_OK, a transient error, an error that is
\* not transient) or, without a call of it, WRITE_ALREADY_EXPIRED; and the
\* error the write listener is called with ("none": err is NULL, the record
\* was written).
PutStatus ==
    {"AEROSPIKE_OK", "AEROSPIKE_ERR_ASYNC_QUEUE_FULL", "AEROSPIKE_ERR_PARAM",
     "WRITE_ALREADY_EXPIRED"}
ListenerErrors ==
    {"none", "AEROSPIKE_ERR_TIMEOUT", "AEROSPIKE_ERR_RECORD_EXISTS",
     "AEROSPIKE_ERR_RECORD_TOO_BIG"}

\* DatabaseRowWithWriter::handle_error_and_retry: true for the transient errors.
handle_error_and_retry_never(err) == FALSE
handle_error_and_retry(err) ==
    err \in {"AEROSPIKE_ERR_TIMEOUT", "AEROSPIKE_ERR_ASYNC_QUEUE_FULL",
             "AEROSPIKE_ERR_CONNECTION", "AEROSPIKE_ERR_NO_MORE_CONNECTIONS",
             "AEROSPIKE_ERR_ASYNC_CONNECTION", "AEROSPIKE_ERR_CLUSTER"}

\* The writer as its constructor leaves it.  in_flight: the rows Aerospike
\* owns; requests_in_flight: the writer's count of them and of the row
\* write_next holds; unpiped: those of in_flight whose pipeline listener has
\* not been called; failed_requests and spare_requests: the two lists, heads
\* first; allocated: the row objects made with new so far; written, existing,
\* refused and expired: the rows as they were when they were returned to the
\* pool after the listener was called without an error, after "record exists",
\* after another error that is not transient, and after write found them
\* expired; read: the keys of the rows drawn from the iterator, in the order
\* drawn; printed: what do_transfer reports at its end; errors: the transient
\* errors so far; pc: "try_another_row" while write_next stands at its label
\* after a row it gave up, "idle" outside write_next.
AerospikeWriter ==
    [s_terminated |-> FALSE, writerStatus |-> "STALLED", requests_in_flight |-> 0,
     in_flight |-> {}, unpiped |-> {}, failed_requests |-> <<>>,
     spare_requests |-> <<>>, allocated |-> 0,
     existing_entries |-> 0, failed_entries |-> 0, expired_entries |-> 0,
     written |-> {}, existing |-> {}, refused |-> {}, expired |-> {},
     read |-> <<>>, printed |-> <<>>, errors |-> 0, pc |-> "idle"]

\* AerospikeDatabaseRow::reset (the expiry is left out; index is the model's
\* own note of the row's place in read).
reset_key_only(row) == [row EXCEPT !.key = 0, !.index = 0]
reset(row) == [row EXCEPT !.key = 0, !.columns = <<>>, !.index = 0]

\* new DatabaseRowWithWriter(this): the id tells the objects apart.
DatabaseRowWithWriter(id) ==
    reset([id |-> id, ordinal |-> 0, index |-> 0, key |-> 0, columns |-> <<>>])

\* AerospikeDatabaseRow::new_row, new_column and new_column_with_ttl, as the
\* callback e of the log.
row_callback(row, e) ==
    IF e.op = "new_row" THEN [row EXCEPT !.key = e.key]
    ELSE IF e.op \in {"new_column", "new_column_with_ttl"}
    THEN [row EXCEPT !.columns = Append(@, <<e.name, e.data>>)]
    ELSE row

\* The row after the callbacks log[i], log[i + 1], ...
RECURSIVE received(_, _, _)
received(row, log, i) ==
    IF i > Len(log) THEN row ELSE received(row_callback(row, log[i]), log, i + 1)

\* AerospikeWriter::set_status_if_no_queries_in_flight
set_status_if_no_queries_in_flight(x, new_status) ==
    IF x.requests_in_flight = 0 THEN [x EXCEPT !.writerStatus = new_status] ELSE x

\* AerospikeWriter::make_row.  Returns [x, row].
make_row(x) ==
    IF x.spare_requests # <<>>
    THEN [x |-> [x EXCEPT !.requests_in_flight = @ + 1, !.spare_requests = Tail(@)],
          row |-> Head(x.spare_requests)]
    ELSE [x |-> [x EXCEPT !.requests_in_flight = @ + 1, !.allocated = @ + 1],
          row |-> DatabaseRowWithWriter(x.allocated + 1)]

\* AerospikeWriter::return_row_to_pool
return_row_to_pool(x, row) ==
    [x EXCEPT !.requests_in_flight = @ - 1, !.spare_requests = <<reset(row)>> \o @]

\* AerospikeWriter::queue_row_for_resend
queue_row_for_resend_dropping(x, row) ==
    set_status_if_no_queries_in_flight([x EXCEPT !.requests_in_flight = @ - 1,
                                                 !.errors = @ + 1],
                                       "STALLED")
queue_row_for_resend(x, row) ==
    set_status_if_no_queries_in_flight([x EXCEPT !.requests_in_flight = @ - 1,
                                                 !.failed_requests = <<row>> \o @,
                                                 !.errors = @ + 1],
                                       "STALLED")

\* The key the last new_row of the log gave to the row object.
LastKey(log) ==
    log[CHOOSE i \in DOMAIN log :
            /\ log[i].op = "new_row"
            /\ \A j \in DOMAIN log : log[j].op = "new_row" => j <= i].key

\* write_next from "writerStatus = RUNNING" on, status being what row->write
\* comes back with: the request queued, the row queued for resend, or the row
\* given up and the jump to the label.
written_to(x, row, status) ==
    IF status = "AEROSPIKE_OK"
    THEN [x EXCEPT !.in_flight = @ \cup {row}, !.unpiped = @ \cup {row}]
    ELSE IF status = "WRITE_ALREADY_EXPIRED"
    THEN [return_row_to_pool(x, row) EXCEPT !.expired_entries = @ + 1,
                                            !.expired = @ \cup {row},
                                            !.pc = "try_another_row"]
    ELSE IF handle_error_and_retry(status)
    THEN queue_row_for_resend(x, row)
    ELSE [return_row_to_pool(x, row) EXCEPT !.refused = @ \cup {row},
                                            !.pc = "try_another_row"]

write(w, row, status) ==
    [w EXCEPT !.x = written_to([@ EXCEPT !.writerStatus = "RUNNING"], row, status)]

\* write_next after make_row returned m and iterator.next(*row) returned r.
row_drawn(w, m, r, status) ==
    IF r.it.fault # "none" THEN [x |-> w.x, it |-> r.it]
    ELSE IF ~r.ret
    THEN [x |-> set_status_if_no_queries_in_flight(
                    return_row_to_pool(m.x,
                        received([m.row EXCEPT !.ordinal = w.it.m_cassandraReadRecords],
                                 r.it.sink, Len(w.it.sink) + 1)),
                    "FINISHED"),
          it |-> r.it]
    ELSE write([x |-> [m.x EXCEPT !.read = Append(@, LastKey(r.it.sink))], it |-> r.it],
               received([m.row EXCEPT !.ordinal = w.it.m_cassandraReadRecords,
                                      !.index = Len(w.x.read) + 1],
                        r.it.sink, Len(w.it.sink) + 1),
               status)

\* AerospikeWriter::write_next on w = [x: the writer, it: the iterator], once
\* round the label try_another_row.
write_next(w, status) ==
    IF w.x.s_terminated
    THEN [w EXCEPT !.x = set_status_if_no_queries_in_flight(@, "FINISHED")]
    ELSE IF w.x.failed_requests # <<>>
    THEN write([w EXCEPT !.x.failed_requests = Tail(@), !.x.requests_in_flight = @ + 1],
               Head(w.x.failed_requests), status)
    ELSE row_drawn(w, make_row(w.x), next(w.it), status)

\* AerospikeWriter::get_first_unsent_record: the key of the failed request of
\* the least ordinal.
get_first_unsent_record(x) ==
    (CHOOSE r \in Range(x.failed_requests) :
        \A o \in Range(x.failed_requests) : r.ordinal <= o.ordinal).key

The_transfer == [x |-> transfer, it |-> The_iterator]

\* What Aerospike may answer now: no transient error beyond MaxErrors.
Answers(S) == IF transfer.errors < MaxErrors THEN S
              ELSE {e \in S : ~handle_error_and_retry(e)}

\* The state after a step of the transfer that left w.
Transferred(w) ==
    /\ m_tables' = w.it.m_tables
    /\ m_next_table' = w.it.m_next_table
    /\ m_active_tables' = w.it.m_active_tables
    /\ m_skippedRecords' = w.it.m_skippedRecords
    /\ m_cassandraReadRecords' = w.it.m_cassandraReadRecords
    /\ sink' = w.it.sink
    /\ phase' = IF w.it.fault = "assert" THEN "abort"
                ELSE IF w.it.fault = "overread" THEN "overread"
                ELSE IF w.it.fault \in {"null", "closed"} THEN "crash"
                ELSE "iter"
    /\ transfer' = w.x
    /\ UNCHANGED <<ndebug, files, start, peeked, twin, aside>>

Transferring == phase = "iter" /\ transfer # <<>> /\ transfer.printed = <<>>

\* No thread is inside write_next.
Outside == Transferring /\ transfer.pc = "idle"

\* do_transfer's first call of write_next, and wait_for_writers' call on a
\* writer it found STALLED.
Kick ==
    /\ Outside
    /\ transfer.writerStatus = "STALLED"
    /\ \E status \in Answers(PutStatus) : Transferred(write_next(The_transfer, status))

\* write_next from the label on, after "goto try_another_row".
Goto_try_another_row ==
    /\ Transferring
    /\ transfer.pc = "try_another_row"
    /\ \E status \in Answers(PutStatus) :
          Transferred(write_next([The_transfer EXCEPT !.x.pc = "idle"], status))

\* DatabaseRowWithWriter::pipeline_listener
Pipeline_listener ==
    /\ Outside
    /\ \E row \in transfer.unpiped, status \in Answers(PutStatus) :
          Transferred(IF transfer.requests_in_flight < MaxInFlight
                      THEN write_next([The_transfer EXCEPT !.x.unpiped = @ \ {row}], status)
                      ELSE [The_transfer EXCEPT !.x.unpiped = @ \ {row}])

\* write_listener after handle_error_and_retry returned false for err: the
\* row goes back to the pool.
answered(x, row, err) ==
    [return_row_to_pool(x, row) EXCEPT
        !.in_flight = @ \ {row}, !.unpiped = @ \ {row},
        !.existing_entries = IF err = "AEROSPIKE_ERR_RECORD_EXISTS" THEN @ + 1 ELSE @,
        !.written = IF err = "none" THEN @ \cup {row} ELSE @,
        !.existing = IF err = "AEROSPIKE_ERR_RECORD_EXISTS" THEN @ \cup {row} ELSE @,
        !.refused = IF err \notin {"none", "AEROSPIKE_ERR_RECORD_EXISTS"}
                    THEN @ \cup {row} ELSE @]

\* DatabaseRowWithWriter::write_listener
Write_listener ==
    /\ Outside
    /\ \E row \in transfer.in_flight, err \in Answers(ListenerErrors),
          status \in Answers(PutStatus) :
          Transferred(
              IF handle_error_and_retry(err)
              THEN [The_transfer EXCEPT
                       !.x = queue_row_for_resend([@ EXCEPT !.in_flight = @ \ {row},
                                                            !.unpiped = @ \ {row}], row)]
              ELSE write_next([The_transfer EXCEPT !.x = answered(@, row, err)], status))

\* signalHandler: AerospikeWriter::terminate, while the transfer runs.
Terminate ==
    /\ Transferring
    /\ ~transfer.s_terminated
    /\ transfer.writerStatus # "FINISHED"
    /\ transfer' = [transfer EXCEPT !.s_terminated = TRUE]
    /\ UNCHANGED <<ndebug, files, phase, m_tables, m_next_table, m_active_tables,
                   m_skippedRecords, m_cassandraReadRecords, sink, start, peeked, twin,
                   aside>>

\* do_transfer's summary line: the four counts it prints.
summary(x, it) ==
    [exported |-> it.m_cassandraReadRecords - x.existing_entries - x.failed_entries
                      - x.expired_entries,
     failed |-> x.failed_entries,
     skipped |-> it.m_skippedRecords + x.expired_entries,
     existing |-> x.existing_entries]

\* do_transfer after the summary line: the key to resume with, r being what
\* get_next_key returns where no failed request is left.
resume(x, r) ==
    IF x.failed_requests # <<>>
    THEN [ret |-> TRUE, key |-> <<get_first_unsent_record(x)>>, it |-> The_iterator]
    ELSE r

reported(x, it, r) ==
    [x |-> [x EXCEPT !.printed =
                <<[ret |-> r.ret, key |-> r.key, exported |-> summary(x, it).exported,
                   failed |-> summary(x, it).failed, skipped |-> summary(x, it).skipped,
                   existing |-> summary(x, it).existing]>>],
     it |-> r.it]

\* The end of do_transfer, once wait_for_writers found the writer FINISHED.
Report ==
    /\ Outside
    /\ transfer.writerStatus = "FINISHED"
    /\ Transferred(reported(transfer, The_iterator,
                            resume(transfer, get_next_key(The_iterator))))

InitTransfer ==
    /\ ndebug \in BOOLEAN
    /\ files \in CopyFamily
    /\ phase = "new"
    /\ m_tables = <<>>
    /\ m_next_table = 0
    /\ m_active_tables = {}
    /\ m_skippedRecords = 0
    /\ m_cassandraReadRecords = 0
    /\ sink = <<>>
    /\ start = <<"none">>
    /\ peeked = <<>>
    /\ twin = <<>>
    /\ transfer = AerospikeWriter
    /\ Parked

NextTransfer ==
    \/ Begin
    \/ Kick
    \/ Goto_try_another_row
    \/ Pipeline_listener
    \/ Write_listener
    \/ Terminate
    \/ Report

SpecTransfer == InitTransfer /\ [][NextTransfer]_vars

---------------------------------------------------------------------------
(* CassandraParser::open on one directory *)

MaxEntries == 3     \* -Data.db files in the directory

\* What open learns of one -Data.db file: the keyspace and table
\* extractKeyspaceAndTable gives (non-empty names, 1 or 2), the partitioner
\* class its -Statistics.db names ("missing": no such file), the compressor
\* class its -CompressionInfo.db names.
Entries ==
    [keyspace : 1..2, table : 1..2,
     statistics : {"missing", "Murmur3Partitioner", "RandomPartitioner", "FooPartitioner"},
     compression : {"LZ4Compressor", "FooCompressor"}]

\* The directories of the family: the first file is of keyspace 1.
Listings == {l \in SeqsUpTo(Entries, MaxEntries) : l # <<>> => l[1].keyspace = 1}

\* Partitioner::partitioner_from_name, on the class name after the prefix
\* org.apache.cassandra.dht.
partitioner_from_name(partitionerIdentifier) ==
    IF partitionerIdentifier \in {"RandomPartitioner", "ByteOrderedPartitioner",
                                  "OrderPreservingPartitioner", "Murmur3Partitioner"}
    THEN partitionerIdentifier
    ELSE "nullptr"

\* CassandraParser::add_data_file from the test of m_keyspace on.  Returns
\* [o, ret]; the empty string is 0.
add_data_file(o, e) ==
    IF o.m_keyspace = 0 /\ o.m_tableName = 0
    THEN [o |-> [o EXCEPT !.m_keyspace = e.keyspace, !.m_tableName = e.table], ret |-> TRUE]
    ELSE IF o.m_keyspace # e.keyspace \/ o.m_tableName # e.table
    THEN [o |-> o, ret |-> FALSE]
    ELSE [o |-> o, ret |-> TRUE]

\* The body of open's readdir loop once add_data_file has returned a: the
\* -Statistics.db of the file, if it opens, is read for the partitioner.
file_added(a, e) ==
    IF ~a.ret THEN [a.o EXCEPT !.ret = "false"]
    ELSE IF e.statistics = "missing" THEN a.o
    ELSE IF a.o.partitioner = "nullptr"
    THEN [a.o EXCEPT !.partitioner = partitioner_from_name(e.statistics)]
    ELSE IF a.o.partitioner # partitioner_from_name(e.statistics)
    THEN [a.o EXCEPT !.ret = "false"]
    ELSE a.o

\* One turn of the readdir loop of CassandraParser::open.
Open_entry ==
    /\ opening.ret = "running"
    /\ opening.taken < Len(opening.listing)
    /\ opening' = file_added(add_data_file([opening EXCEPT !.taken = @ + 1,
                                                          !.m_numFiles = @ + 1],
                                           opening.listing[opening.taken + 1]),
                             opening.listing[opening.taken + 1])
    /\ UNCHANGED <<merging, threads, reader, cbuf, vint, hashed>>

\* The end of CassandraParser::open, after the last entry.
Open_return ==
    /\ opening.ret = "running"
    /\ opening.taken = Len(opening.listing)
    /\ opening' = [opening EXCEPT !.ret =
                      IF opening.m_numFiles = 0 \/ opening.partitioner = "nullptr"
                      THEN "false" ELSE "true"]
    /\ UNCHANGED <<merging, threads, reader, cbuf, vint, hashed>>

\* No merge runs: the parser is not open yet.
NotMerging ==
    /\ ndebug = FALSE
    /\ files = <<>>
    /\ phase = "closed"
    /\ m_tables = <<>>
    /\ m_next_table = 0
    /\ m_active_tables = {}
    /\ m_skippedRecords = 0
    /\ m_cassandraReadRecords = 0
    /\ sink = <<>>
    /\ start = <<"none">>
    /\ peeked = <<>>
    /\ twin = <<>>
    /\ transfer = <<>>

InitOpen ==
    /\ NotMerging
    /\ cbuf = NoBuffer
    /\ vint = <<>>
    /\ hashed = <<>>
    /\ opening \in {[NotOpening EXCEPT !.listing = l, !.ret = "running"] : l \in Listings}
    /\ threads = <<>> /\ reader = <<>>

NextOpen == Open_entry \/ Open_return

SpecOpen == InitOpen /\ [][NextOpen]_vars

---------------------------------------------------------------------------
(* CompressedBuffer (Buffer.cpp) *)

ChunkLen  == 2      \* chunk_len: uncompressed bytes in one chunk
MaxChunks == 3      \* chunks in the data file
MaxBytes  == 3      \* bytes asked for in one read

\* The version of a file: VERSION_STRING_TO_VERSION of its two letters.
VERSION_JA == 234
VERSION_JB == 235
VERSION_LA == 286
VERSION_MA == 312
DataVersions == {VERSION_JA, VERSION_JB, VERSION_LA, VERSION_MA}

\* SStable::open: the checksum class it hands to the CompressedBuffer, and
\* whether the checksum covers the compressed bytes.
checksumClass(version) ==
    IF version >= VERSION_JB /\ version < VERSION_MA THEN "ADLER32" ELSE "CRC32"

\* The checksum over the compressed bytes only for the versions with Adler-32.
checksum_compressed_adler(version) == version >= VERSION_JB /\ version < VERSION_MA

checksum_compressed(version) == version >= VERSION_JB

\* The buffer is the record b:
\*   stored[i + 1]   TRUE when the 4 checksum bytes stored after chunk i equal
\*                   the checksum computed from the chunk as it is in the file
\*   uncompressed_len, file_offset, buffer_offset, iseof, checksum_class,
\*   check_before_decompression, s_enableChecksum   as in the code
\*   version         the version of the file SStable::open built the buffer for
\*   buffer          the bytes of the buffer (buffer_len is its length): each
\*                   the logical offset of the data byte it holds, or -1
\*   events          what the last read_bytes did to which chunk
\*   returned        the bytes the last read_bytes returned (<<>> for NULL and
\*                   when the call did not return)
\*   exited          TRUE once exit(-1) was called
Buffers ==
    UNION {{[stored |-> s, uncompressed_len |-> n,
             file_offset |-> 0, buffer_offset |-> 0, iseof |-> FALSE,
             version |-> v, checksum_class |-> checksumClass(v),
             check_before_decompression |-> checksum_compressed(v),
             s_enableChecksum |-> e,
             buffer |-> <<>>, events |-> <<>>, returned |-> <<>>, exited |-> FALSE] :
               s \in [1..k -> BOOLEAN],
               n \in ((k - 1) * ChunkLen + 1)..(k * ChunkLen),
               v \in DataVersions, e \in BOOLEAN} :
           k \in 1..MaxChunks}

\* verify_checksum accepting every chunk: what it does with checksums disabled.
verify_checksum_disabled(b, i) == TRUE

\* CompressedBuffer::verify_checksum on chunk i
verify_checksum(b, i) == ~b.s_enableChecksum \/ b.stored[i + 1]

\* decompress_block of chunk i to buffer + buffer_read_pos: the chunk's bytes,
\* up to the end of the data.
decompress_block(b, i, buffer_read_pos) ==
    [b EXCEPT !.events = Append(@, <<"decompress", i>>),
              !.buffer = [j \in DOMAIN @ |->
                             IF /\ j > buffer_read_pos /\ j <= buffer_read_pos + ChunkLen
                                /\ i * ChunkLen + (j - buffer_read_pos - 1) < b.uncompressed_len
                             THEN i * ChunkLen + (j - buffer_read_pos - 1)
                             ELSE @[j]]]

\* One turn of the loop over the chunks to read; exit(-1) sets exited.
chunk_read(b, i, buffer_read_pos) ==
    IF b.check_before_decompression
    THEN IF verify_checksum(b, i)
         THEN decompress_block([b EXCEPT !.events = Append(@, <<"verify", i>>)], i, buffer_read_pos)
         ELSE [b EXCEPT !.events = Append(@, <<"verify", i>>), !.exited = TRUE]
    ELSE IF verify_checksum(b, i)
         THEN [decompress_block(b, i, buffer_read_pos) EXCEPT !.events = Append(@, <<"verify", i>>)]
         ELSE [decompress_block(b, i, buffer_read_pos) EXCEPT
                  !.events = Append(@, <<"verify", i>>), !.exited = TRUE]

RECURSIVE chunks_read(_, _, _, _, _)
chunks_read(b, i, last_chunk, first_chunk_to_read, useful_bytes_in_buffer) ==
    IF i >= last_chunk \/ b.exited THEN b
    ELSE chunks_read(chunk_read(b, i, (i - first_chunk_to_read) * ChunkLen
                                          + useful_bytes_in_buffer),
                     i + 1, last_chunk, first_chunk_to_read, useful_bytes_in_buffer)

\* adjust_buffer without the move: the first bytes of the buffer stay.
adjust_buffer_unmoved(b, min_length, useful_bytes_in_buffer, useless_bytes_in_buffer) ==
    [b EXCEPT !.buffer = [j \in 1..min_length |->
                             IF j <= useful_bytes_in_buffer THEN b.buffer[j] ELSE -1]]

\* adjust_buffer: the useful bytes move to the front; the rest of the
\* min_length bytes holds no data yet.
adjust_buffer(b, min_length, useful_bytes_in_buffer, useless_bytes_in_buffer) ==
    [b EXCEPT !.buffer = [j \in 1..min_length |->
                             IF j <= useful_bytes_in_buffer
                             THEN b.buffer[useless_bytes_in_buffer + j] ELSE -1]]

\* read_bytes where it fills the buffer, given the chunks to read and the bytes
\* of the buffer to keep.
fill(b, last_chunk, first_chunk_to_read, useful_bytes_in_buffer) ==
    chunks_read([adjust_buffer(b, (last_chunk - first_chunk_to_read) * ChunkLen
                                      + useful_bytes_in_buffer,
                               useful_bytes_in_buffer,
                               Len(b.buffer) - useful_bytes_in_buffer)
                    EXCEPT !.buffer_offset = first_chunk_to_read * ChunkLen
                                                - useful_bytes_in_buffer],
                first_chunk_to_read, last_chunk, first_chunk_to_read, useful_bytes_in_buffer)

\* The end of read_bytes: "start = buffer + file_offset - buffer_offset".
bytes_at(b, n_bytes) ==
    IF b.exited THEN b
    ELSE [b EXCEPT !.returned = SubSeq(b.buffer, b.file_offset - b.buffer_offset + 1,
                                       b.file_offset - b.buffer_offset + n_bytes),
                   !.file_offset = @ + n_bytes]

\* CompressedBuffer::read_bytes
read_bytes(b, n_bytes) ==
    IF b.file_offset + n_bytes > b.uncompressed_len
    THEN [b EXCEPT !.iseof = TRUE]
    ELSE IF b.file_offset < b.buffer_offset
            \/ b.file_offset + n_bytes > b.buffer_offset + Len(b.buffer)
    THEN bytes_at(IF b.file_offset >= b.buffer_offset
                     /\ b.file_offset <= b.buffer_offset + Len(b.buffer)
                  THEN fill(b,
                            (b.file_offset + n_bytes + ChunkLen - 1) \div ChunkLen,
                            (b.buffer_offset + Len(b.buffer)) \div ChunkLen,
                            b.buffer_offset + Len(b.buffer) - b.file_offset)
                  ELSE fill(b,
                            (b.file_offset + n_bytes + ChunkLen - 1) \div ChunkLen,
                            b.file_offset \div ChunkLen, 0),
                  n_bytes)
    ELSE bytes_at(b, n_bytes)

\* A reader asks the buffer for n_bytes bytes; events and returned start empty.
Read_bytes(n_bytes) ==
    /\ cbuf # NoBuffer /\ ~cbuf.exited
    /\ cbuf' = read_bytes([cbuf EXCEPT !.events = <<>>, !.returned = <<>>], n_bytes)
    /\ UNCHANGED <<merging, threads, reader, opening, vint, hashed>>

\* CompressedBuffer::skip_bytes
Skip_bytes(n_bytes) ==
    /\ cbuf # NoBuffer /\ ~cbuf.exited
    /\ cbuf.file_offset + n_bytes <= cbuf.uncompressed_len + 1
    /\ cbuf' = [cbuf EXCEPT !.file_offset = @ + n_bytes]
    /\ UNCHANGED <<merging, threads, reader, opening, vint, hashed>>

\* CompressedBuffer::seek
Seek(position) ==
    /\ cbuf # NoBuffer /\ ~cbuf.exited
    /\ position <= cbuf.uncompressed_len
    /\ cbuf' = [cbuf EXCEPT !.file_offset = position]
    /\ UNCHANGED <<merging, threads, reader, opening, vint, hashed>>

InitBuffer ==
    /\ NotMerging
    /\ opening = NotOpening
    /\ vint = <<>>
    /\ hashed = <<>>
    /\ cbuf \in Buffers
    /\ threads = <<>> /\ reader = <<>>

NextBuffer ==
    \/ \E n_bytes \in 1..MaxBytes : Read_bytes(n_bytes)
    \/ \E n_bytes \in 1..ChunkLen : Skip_bytes(n_bytes)
    \/ \E position \in 0..(MaxChunks * ChunkLen) : Seek(position)

SpecBuffer == InitBuffer /\ [][NextBuffer]_vars

---------------------------------------------------------------------------
(* Buffer::read_unsigned_vint (Buffer.cpp) *)

\* A uint64_t is the sequence of its 8 bytes, the most significant first.
U64(b1, b2, b3, b4, b5, b6, b7, b8) == <<b1, b2, b3, b4, b5, b6, b7, b8>>

\* The value with byte b at place k and zeros elsewhere.
ByteAt(b, k) == [j \in 1..8 |-> IF j = k THEN b ELSE 0]

\* 0, 126, 127, 128, 16383, 16384, 2^56 - 1, 2^56, 2^63 - 1
Sampled ==
    {ByteAt(0, 8), ByteAt(126, 8), ByteAt(127, 8), ByteAt(128, 8),
     U64(0, 0, 0, 0, 0, 0, 63, 255), ByteAt(64, 7),
     U64(0, 255, 255, 255, 255, 255, 255, 255), ByteAt(1, 1),
     U64(127, 255, 255, 255, 255, 255, 255, 255)}

\* The values of the family: the sampled ones, and one byte set at any place.
VintValues == Sampled \cup {ByteAt(b, k) : b \in {1, 63, 64, 127, 128, 255}, k \in 1..8}

\* The bytes Cassandra writes for an unsigned varint of v (VIntCoding): with
\* size bytes, the first carries size - 1 leading ones and then the highest
\* bits of v, the others the 8 * (size - 1) lowest bits; 9 bytes hold 64 bits
\* after a first byte of eight ones.
write_unsigned_vint(v) ==
    LET fits(k) == (\A j \in 1..(8 - k) : v[j] = 0) /\ v[9 - k] < 2 ^ (8 - k)
        size == IF \E k \in 1..8 : fits(k)
                THEN CHOOSE k \in 1..8 : fits(k) /\ \A m \in 1..(k - 1) : ~fits(m)
                ELSE 9
    IN IF size = 9 THEN <<255>> \o v
       ELSE <<256 - 2 ^ (9 - size) + v[9 - size]>> \o SubSeq(v, 10 - size, 8)

\* UncompressedBuffer::read_bytes on the stream u = [data, pos, iseof]; fread
\* of one item of n_bytes bytes returns 0 when n_bytes is 0 and when fewer
\* bytes are left.  Returns [u, data, null], null for the null pointer.
UncompressedBuffer_read_bytes(u, n_bytes) ==
    IF n_bytes = 0 \/ u.pos + n_bytes > Len(u.data)
    THEN [u |-> [u EXCEPT !.iseof = TRUE], data |-> <<>>, null |-> TRUE]
    ELSE [u |-> [u EXCEPT !.pos = @ + n_bytes],
          data |-> SubSeq(u.data, u.pos + 1, u.pos + n_bytes), null |-> FALSE]

\* CompressedBuffer::read_bytes on the stream u = [data, c, pos, iseof], c the
\* CompressedBuffer over a file whose uncompressed bytes are data.
CompressedBuffer_read_bytes(u, n_bytes) ==
    IF read_bytes(u.c, n_bytes).iseof
    THEN [u |-> [u EXCEPT !.c = read_bytes(u.c, n_bytes), !.iseof = TRUE],
          data |-> <<>>, null |-> TRUE]
    ELSE [u |-> [u EXCEPT !.c = read_bytes(u.c, n_bytes),
                          !.pos = read_bytes(u.c, n_bytes).file_offset],
          data |-> [j \in 1..n_bytes |-> u.data[u.pos + j]], null |-> FALSE]

Buffer_read_bytes(u, n_bytes) ==
    IF u.kind = "CompressedBuffer" THEN CompressedBuffer_read_bytes(u, n_bytes)
    ELSE UncompressedBuffer_read_bytes(u, n_bytes)

\* Buffer::read_unsigned_vint.  Returns [u, retval].  extraBytes is the number
\* of leading ones of the first byte, at most 8; "retval <<= 8; retval |=
\* data[i]" moves the bytes of retval one place up and puts data[i] last.
read_unsigned_vint(u) ==
    LET first == Buffer_read_bytes(u, 1)
        firstByte == first.data[1]
        extraBytes == CHOOSE e \in 0..8 :
                          /\ \A j \in 0..(e - 1) : (firstByte \div 2 ^ (7 - j)) % 2 # 0
                          /\ e < 8 => (firstByte \div 2 ^ (7 - e)) % 2 = 0
        rest == Buffer_read_bytes(first.u, extraBytes)
    IN IF first.null THEN [u |-> first.u, retval |-> ByteAt(0, 8)]
       ELSE IF firstByte < 127 THEN [u |-> first.u, retval |-> ByteAt(firstByte, 8)]
       ELSE IF rest.null THEN [u |-> rest.u, retval |-> ByteAt(0, 8)]
       ELSE [u |-> rest.u,
             retval |-> SubSeq(ByteAt(firstByte % 2 ^ (8 - extraBytes), 8) \o rest.data,
                               extraBytes + 1, extraBytes + 8)]

\* The streams of the family: the encoding of a value, alone or followed by
\* one more byte, under either kind of buffer.
VintStreams ==
    {[kind |-> k, v |-> v, data |-> write_unsigned_vint(v) \o pad, pos |-> 0, iseof |-> FALSE,
      c |-> IF k = "CompressedBuffer"
            THEN [stored |-> [i \in 1..((Len(write_unsigned_vint(v) \o pad) + ChunkLen - 1)
                                            \div ChunkLen) |-> TRUE],
                  uncompressed_len |-> Len(write_unsigned_vint(v) \o pad),
                  file_offset |-> 0, buffer_offset |-> 0, iseof |-> FALSE,
                  check_before_decompression |-> TRUE, s_enableChecksum |-> TRUE,
                  buffer |-> <<>>, events |-> <<>>, returned |-> <<>>, exited |-> FALSE]
            ELSE NoBuffer,
      retval |-> <<>>] :
        k \in {"UncompressedBuffer", "CompressedBuffer"}, v \in VintValues,
        pad \in {<<>>, <<0>>}}

\* One call of read_unsigned_vint on a stream.
Read_unsigned_vint ==
    /\ vint # <<>> /\ vint.retval = <<>>
    /\ vint' = [read_unsigned_vint(vint).u EXCEPT
                   !.retval = read_unsigned_vint(vint).retval]
    /\ UNCHANGED <<merging, threads, reader, opening, cbuf, hashed>>

InitVint ==
    /\ NotMerging
    /\ opening = NotOpening
    /\ cbuf = NoBuffer
    /\ vint \in VintStreams
    /\ hashed = <<>>
    /\ threads = <<>> /\ reader = <<>>

NextVint == Read_unsigned_vint

SpecVint == InitVint /\ [][NextVint]_vars

---------------------------------------------------------------------------
(* Murmer3Partitioner::assign_token, from the finalized hash on *)

\* An int64_t is the sequence of the 8 bytes of its two's complement, the most
\* significant first.
INT64_MIN == ByteAt(128, 1)
INT64_MAX == U64(127, 255, 255, 255, 255, 255, 255, 255)

\* The hashes of the family: the two limits and their neighbours, 0 and -1,
\* and one byte set at any place.
Hashes ==
    {INT64_MIN, INT64_MAX, U64(128, 0, 0, 0, 0, 0, 0, 1),
     U64(127, 255, 255, 255, 255, 255, 255, 254), ByteAt(0, 8),
     U64(255, 255, 255, 255, 255, 255, 255, 255)}
    \cup {ByteAt(b, k) : b \in {1, 127, 128, 255}, k \in 1..8}
    \cup {[j \in 1..8 |-> IF j = 1 THEN 128 ELSE IF j = k THEN b ELSE 0] :
            b \in {1, 128, 255}, k \in 2..8}

\* emulate without the test: the hash would be stored as it is.
emulate_nothing(h1) == h1

\* "if (h1 == numeric_limits<int64_t>::min()) h1 = numeric_limits<int64_t>::max()"
emulate(h1) == IF h1 = INT64_MIN THEN INT64_MAX ELSE h1

\* "token[i] = ((char *)&h1)[i]" for i from 0 to 7, on a little-endian host
\* (the platforms of the README): the least significant byte comes first.
store(h1) == [i \in 1..8 |-> h1[9 - i]]

\* The end of one call of assign_token.
Assign_token ==
    /\ hashed # <<>> /\ hashed.token = <<>>
    /\ hashed' = [hashed EXCEPT !.token = store(emulate(hashed.h1))]
    /\ UNCHANGED <<merging, threads, reader, opening, cbuf, vint>>

InitToken ==
    /\ NotMerging
    /\ opening = NotOpening
    /\ cbuf = NoBuffer
    /\ vint = <<>>
    /\ hashed \in {[h1 |-> h, token |-> <<>>] : h \in Hashes}
    /\ threads = <<>> /\ reader = <<>>

NextToken == Assign_token

SpecToken == InitToken /\ [][NextToken]_vars

---------------------------------------------------------------------------
(* The threads of a transfer: the main thread (do_transfer, wait_for_writers)
   and one event-loop thread per writer, each a program counter through
   AerospikeWriter::write_next.  The rows are counted, not decoded: what is
   observed is which thread stands between the two operations on the shared
   iterator.  A thread is 0 (main) or the index of its event loop from 1; the
   writer w is served by the event loop w. *)

MaxLoops == 2
MaxRows == 2

\* do_transfer: the iterator mutex is handed to the writers only if there is
\* more than one event loop.
iterator_mutex_ptr_never(numEventLoops) == FALSE
iterator_mutex_ptr(numEventLoops) == numEventLoops > 1

\* One writer as the constructor leaves it, with its rows counted.
CountedWriter ==
    [writerStatus |-> "STALLED", requests_in_flight |-> 0, failed_requests |-> 0,
     queued |-> 0, unpiped |-> 0]

\* s_max_requests_in_flight is what the option -a gave (atoi of its argument,
\* unchecked): any count from 0 on.
Transfers ==
    {[numEventLoops |-> n, s_terminated |-> FALSE, rows |-> r, errors |-> 0,
      s_max_requests_in_flight |-> a, iterator_mutex |-> -1,
      pc |-> [t \in 0..n |-> "idle"], writer |-> [t \in 0..n |-> 0],
      where |-> "start", index |-> 1, stalled_indexes |-> <<>>,
      writers |-> [w \in 1..n |-> CountedWriter]] :
        n \in 1..MaxLoops, r \in 0..MaxRows, a \in 0..MaxInFlight}

\* AerospikeWriter::terminated
terminated_never(x) == FALSE
terminated(x) == x.s_terminated

\* AerospikeWriter::set_status_if_no_queries_in_flight, for the writer w.
settle_always(x, w, new_status) == [x EXCEPT !.writers[w].writerStatus = new_status]
settle(x, w, new_status) ==
    IF x.writers[w].requests_in_flight = 0
    THEN [x EXCEPT !.writers[w].writerStatus = new_status] ELSE x

\* AerospikeWriter::return_row_to_pool and queue_row_for_resend, for the writer w.
pooled(x, w) == [x EXCEPT !.writers[w].requests_in_flight = @ - 1]

resend(x, w) ==
    settle([x EXCEPT !.writers[w].requests_in_flight = @ - 1,
                     !.writers[w].failed_requests = @ + 1,
                     !.errors = @ + 1], w, "STALLED")

\* The thread t calls write_next of the writer w, and returns from it.
called(x, t, w) == [x EXCEPT !.pc[t] = "try_another_row", !.writer[t] = w]
returned(x, t) == [x EXCEPT !.pc[t] = "idle"]

\* write_next from its label to the iterator: the termination test, the failed
\* request taken first, else a fresh row and the way to the iterator.
Try_another_row(t) ==
    /\ threads # <<>> /\ t <= threads.numEventLoops /\ threads.pc[t] = "try_another_row"
    /\ LET w == threads.writer[t]
       IN  threads' =
             IF terminated(threads) THEN returned(settle(threads, w, "FINISHED"), t)
             ELSE IF threads.writers[w].failed_requests > 0
             THEN [threads EXCEPT !.writers[w].failed_requests = @ - 1,
                                  !.writers[w].requests_in_flight = @ + 1,
                                  !.pc[t] = "write"]
             ELSE [threads EXCEPT !.writers[w].requests_in_flight = @ + 1,
                                  !.pc[t] = IF iterator_mutex_ptr(threads.numEventLoops)
                                            THEN "lock" ELSE "next"]
    /\ UNCHANGED <<merging, opening, cbuf, vint, hashed, reader>>

\* pthread_mutex_lock(iterator_mutex)
Lock(t) ==
    /\ threads # <<>> /\ t <= threads.numEventLoops /\ threads.pc[t] = "lock" /\ threads.iterator_mutex = -1
    /\ threads' = [threads EXCEPT !.iterator_mutex = t, !.pc[t] = "next"]
    /\ UNCHANGED <<merging, opening, cbuf, vint, hashed, reader>>

\* getCassandraReadRecords and next on the shared iterator, the unlock, and the
\* return when there is no more record.
Iterate(t) ==
    /\ threads # <<>> /\ t <= threads.numEventLoops /\ threads.pc[t] = "next"
    /\ LET w == threads.writer[t]
           x == [threads EXCEPT !.iterator_mutex =
                                   IF iterator_mutex_ptr(threads.numEventLoops) THEN -1 ELSE @]
       IN  threads' =
             IF x.rows = 0 THEN returned(settle(pooled(x, w), w, "FINISHED"), t)
             ELSE [x EXCEPT !.rows = @ - 1, !.pc[t] = "write"]
    /\ UNCHANGED <<merging, opening, cbuf, vint, hashed, reader>>

\* The rest of write_next: the status, the write and its three ways out.
Write_row(t) ==
    /\ threads # <<>> /\ t <= threads.numEventLoops /\ threads.pc[t] = "write"
    /\ LET w == threads.writer[t]
           x == [threads EXCEPT !.writers[w].writerStatus = "RUNNING"]
       IN  \/ threads' = returned([x EXCEPT !.writers[w].queued = @ + 1,
                                            !.writers[w].unpiped = @ + 1], t)
           \/ /\ x.errors < MaxErrors
              /\ threads' = returned(resend(x, w), t)
           \/ threads' = called(pooled(x, w), t, w)
    /\ UNCHANGED <<merging, opening, cbuf, vint, hashed, reader>>

\* The test of pipeline_listener: the pipeline of the writer w has space.
has_space_always(x, w) == TRUE
has_space(x, w) == x.writers[w].requests_in_flight < x.s_max_requests_in_flight

\* DatabaseRowWithWriter::pipeline_listener, on the event loop t for one of its
\* writer's requests.
Loop_pipeline_listener(t) ==
    /\ threads # <<>> /\ t \in 1..threads.numEventLoops /\ threads.pc[t] = "idle"
    /\ threads.writers[t].unpiped > 0
    /\ LET x == [threads EXCEPT !.writers[t].unpiped = @ - 1]
       IN  threads' = IF has_space(x, t) THEN called(x, t, t) ELSE x
    /\ UNCHANGED <<merging, opening, cbuf, vint, hashed, reader>>

\* DatabaseRowWithWriter::write_listener, on the event loop t for one of its
\* writer's requests; a request answered before its pipeline listener ran gets
\* no pipeline listener.
Loop_write_listener(t) ==
    /\ threads # <<>> /\ t \in 1..threads.numEventLoops /\ threads.pc[t] = "idle"
    /\ threads.writers[t].queued > 0
    /\ \E piped \in BOOLEAN :
         /\ piped => threads.writers[t].unpiped < threads.writers[t].queued
         /\ ~piped => threads.writers[t].unpiped > 0
         /\ LET x == [threads EXCEPT !.writers[t].queued = @ - 1,
                                     !.writers[t].unpiped = IF piped THEN @ ELSE @ - 1]
            IN  \/ /\ x.errors < MaxErrors
                   /\ threads' = resend(x, t)
                \/ threads' = called(pooled(x, t), t, t)
    /\ UNCHANGED <<merging, opening, cbuf, vint, hashed, reader>>

\* do_transfer: the first write_next of every writer, on the main thread.
Main_start ==
    /\ threads # <<>> /\ threads.where = "start" /\ threads.pc[0] = "idle"
    /\ threads' = IF threads.index <= threads.numEventLoops
                  THEN called([threads EXCEPT !.index = @ + 1], 0, threads.index)
                  ELSE [threads EXCEPT !.where = "wait"]
    /\ UNCHANGED <<merging, opening, cbuf, vint, hashed, reader>>

\* wait_for_writers: the wait on the condition, the stalled writers listed
\* under the status lock, and the test that ends the wait.
Main_wait ==
    /\ threads # <<>> /\ threads.where = "wait"
    /\ \E w \in 1..threads.numEventLoops : threads.writers[w].writerStatus # "RUNNING"
    /\ threads' =
         IF \A w \in 1..threads.numEventLoops : threads.writers[w].writerStatus = "FINISHED"
         THEN [threads EXCEPT !.where = "report", !.pc[0] = "report"]
         ELSE [threads EXCEPT !.where = "kick",
                  !.stalled_indexes =
                     SelectSeq([w \in 1..threads.numEventLoops |-> w],
                               LAMBDA w : threads.writers[w].writerStatus = "STALLED")]
    /\ UNCHANGED <<merging, opening, cbuf, vint, hashed, reader>>

\* wait_for_writers: after the sleep, write_next of every writer listed, on the
\* main thread.
Main_kick_skipping ==
    /\ threads # <<>> /\ threads.where = "kick" /\ threads.pc[0] = "idle"
    /\ threads' = IF threads.stalled_indexes = <<>> THEN [threads EXCEPT !.where = "wait"]
                  ELSE [threads EXCEPT !.stalled_indexes = Tail(@)]
    /\ UNCHANGED <<merging, opening, cbuf, vint, hashed, reader>>

Main_kick ==
    /\ threads # <<>> /\ threads.where = "kick" /\ threads.pc[0] = "idle"
    /\ threads' = IF threads.stalled_indexes = <<>> THEN [threads EXCEPT !.where = "wait"]
                  ELSE called([threads EXCEPT !.stalled_indexes = Tail(@)], 0,
                              Head(threads.stalled_indexes))
    /\ UNCHANGED <<merging, opening, cbuf, vint, hashed, reader>>

\* do_transfer after the wait: getCassandraReadRecords for the report.
Main_report ==
    /\ threads # <<>> /\ threads.pc[0] = "report"
    /\ threads' = [threads EXCEPT !.where = "done", !.pc[0] = "idle"]
    /\ UNCHANGED <<merging, opening, cbuf, vint, hashed, reader>>

\* AerospikeWriter::terminate, from the signal handler.
Signal ==
    /\ threads # <<>> /\ ~threads.s_terminated /\ threads.where # "done"
    /\ threads' = [threads EXCEPT !.s_terminated = TRUE]
    /\ UNCHANGED <<merging, opening, cbuf, vint, hashed, reader>>

InitThreads ==
    /\ NotMerging
    /\ opening = NotOpening /\ cbuf = NoBuffer /\ vint = <<>> /\ hashed = <<>>
    /\ reader = <<>>
    /\ threads \in Transfers

NextThreads ==
    \/ Main_start \/ Main_wait \/ Main_kick \/ Main_report \/ Signal
    \/ \E t \in 0..MaxLoops : Try_another_row(t)
    \/ \E t \in 0..MaxLoops : Lock(t)
    \/ \E t \in 0..MaxLoops : Iterate(t)
    \/ \E t \in 0..MaxLoops : Write_row(t)
    \/ \E t \in 1..MaxLoops : Loop_pipeline_listener(t)
    \/ \E t \in 1..MaxLoops : Loop_write_listener(t)

SpecThreads == InitThreads /\ [][NextThreads]_vars

\* The same program where every thread that can take a step takes one in the
\* end and every request queued is answered in the end: the main thread, the
\* event-loop threads inside write_next, and the listeners of each event loop.
ThreadsFairness ==
    /\ WF_vars(Main_start) /\ WF_vars(Main_wait) /\ WF_vars(Main_kick)
    /\ WF_vars(Main_report)
    /\ \A t \in 0..MaxLoops :
          WF_vars(Try_another_row(t) \/ Lock(t) \/ Iterate(t) \/ Write_row(t))
    /\ \A t \in 1..MaxLoops :
          WF_vars(Loop_pipeline_listener(t) \/ Loop_write_listener(t))

SpecThreadsFair == InitThreads /\ [][NextThreads]_vars /\ ThreadsFairness

---------------------------------------------------------------------------
(* One reader driven by hand, in the order next_record and activate_table
   call it: open, read_row, then per cell read_column_data (for a cell with a
   name that is not deleted) or not, and read_column; read_row again once
   read_column has returned false. *)

\* One file: a first partition with up to MaxCells cells, live or deleted, and
\* behind it nothing or one more partition.
ReaderParts(ver) ==
    {<<Partition(1, d, cs)>> \o rest :
        d \in {STILL_ACTIVE, MaxTs}, cs \in CellSeqs(ver, MaxCells),
        rest \in {<<>>, <<Partition(2, STILL_ACTIVE, <<Cell(1, 1, "live", 0, FALSE)>>)>>}}

ReaderFiles == UNION {{<<[ver |-> v, parts |-> ps]>> : ps \in ReaderParts(v)} : v \in Versions}

\* What a call leaves: the reader, the member called, what it returned, and the
\* names of the cells the reader has presented since the last header.
called_reader(t, op, ret, cells) == [t |-> t, last |-> op, ret |-> ret, cells |-> cells]

\* The cell a reader presents after a call, if it presents one.
presented(t) == IF t.next_column_info.name = 0 THEN <<>> ELSE <<t.next_column_info.name>>

HasCell ==
    \/ reader.last = "read_row" /\ ~reader.ret
    \/ reader.last = "read_column" /\ reader.ret

Reader_open ==
    /\ reader # <<>> /\ reader.last = "create_table"
    /\ reader' = called_reader(open(reader.t), "open", open(reader.t).isopen, <<>>)
    /\ UNCHANGED <<merging, opening, cbuf, vint, hashed, threads>>

Reader_read_row ==
    /\ reader # <<>> /\ reader.t.fault = "none"
    /\ reader.last = "open" \/ (reader.last = "read_column" /\ ~reader.ret)
    /\ LET r == read_row(reader.t)
       IN  reader' = called_reader(r.t, "read_row", r.ret,
                                   IF r.ret \/ r.t.fault # "none" THEN <<>> ELSE presented(r.t))
    /\ UNCHANGED <<merging, opening, cbuf, vint, hashed, threads>>

Reader_read_column ==
    /\ reader # <<>> /\ reader.t.fault = "none"
    /\ HasCell \/ reader.last = "read_column_data"
    /\ LET r == read_column(reader.t)
       IN  reader' = called_reader(r.t, "read_column", r.ret,
                                   IF r.ret THEN reader.cells \o presented(r.t)
                                   ELSE reader.cells)
    /\ UNCHANGED <<merging, opening, cbuf, vint, hashed, threads>>

Reader_read_column_data ==
    /\ reader # <<>> /\ reader.t.fault = "none"
    /\ HasCell
    /\ reader.t.next_column_info.name # 0 /\ ~reader.t.next_column_info.deleted
    /\ reader' = called_reader(read_column_data(reader.t).t, "read_column_data", TRUE,
                               reader.cells)
    /\ UNCHANGED <<merging, opening, cbuf, vint, hashed, threads>>

InitReader ==
    /\ ndebug \in BOOLEAN
    /\ files \in ReaderFiles
    /\ phase = "closed"
    /\ m_tables = <<>> /\ m_next_table = 0 /\ m_active_tables = {}
    /\ m_skippedRecords = 0 /\ m_cassandraReadRecords = 0
    /\ sink = <<>> /\ start = <<"none">>
    /\ peeked = <<>> /\ twin = <<>> /\ transfer = <<>>
    /\ opening = NotOpening /\ cbuf = NoBuffer /\ vint = <<>> /\ hashed = <<>>
    /\ threads = <<>>
    /\ reader = called_reader(create_table(1), "create_table", TRUE, <<>>)

NextReader == Reader_open \/ Reader_read_row \/ Reader_read_column \/ Reader_read_column_data

SpecReader == InitReader /\ [][NextReader]_vars

---------------------------------------------------------------------------
(* Reading the log and the files *)

Rows == {i \in DOMAIN sink : sink[i].op = "new_row"}
IsColumn(e) == e.op \in {"new_column", "new_column_with_ttl"}

\* The log entries that belong to the partition announced at entry r.
InRow(r) == {i \in (r + 1)..Len(sink) : \A m \in (r + 1)..i : sink[m].op # "new_row"}
ColumnsOf(r) == {i \in InRow(r) : IsColumn(sink[i])}
RecordsOf(r) == {i \in InRow(r) : sink[i].op = "next_record"}

\* The log entries of the call of next() that returned at entry e.
Returns == {i \in DOMAIN sink : sink[i].op = "next"}
CallOf(e) == {i \in 1..(e - 1) : \A m \in i..(e - 1) : sink[m].op # "next"}

\* The cells of the files: <<file, partition, cell>>.
Places ==
    {x \in (1..NumFiles) \X (1..MaxParts) \X (1..MaxCells) :
        /\ x[2] <= Len(files[x[1]].parts)
        /\ x[3] <= Len(files[x[1]].parts[x[2]].cells)}
CellAt(x) == files[x[1]].parts[x[2]].cells[x[3]]
KeyOf(x) == files[x[1]].parts[x[2]].key
Before(k1, k2) == compare_token(assign_token(k1), k1, assign_token(k2), k2)

---------------------------------------------------------------------------
(* Claims *)

\* C1 (Monotone output): in every run, whether the iterator came from begin()
\* or from find(K), the keys passed to new_row are non-decreasing under the
\* partitioner's compare_token.
C1_MonotoneOutput ==
    \A i, j \in Rows : i < j => Before(sink[i].key, sink[j].key) <= 0

\* What the files hold for a partition key.
IsCell(x) == CellAt(x).kind \in {"live", "exp", "del"}
CellsOfKey(k) == {x \in Places : KeyOf(x) = k}
VersionsOf(k, n) == {x \in CellsOfKey(k) : IsCell(x) /\ CellAt(x).name = n}
PartsOfKey(k) ==
    {y \in (1..NumFiles) \X (1..MaxParts) :
        y[2] <= Len(files[y[1]].parts) /\ files[y[1]].parts[y[2]].key = k}
DeletionsOf(k) == {files[y[1]].parts[y[2]].mfd : y \in PartsOfKey(k)} \ {STILL_ACTIVE}

\* The callbacks that delivered column n of partition k.
Deliveries(k, n) ==
    {i \in DOMAIN sink : /\ IsColumn(sink[i])
                         /\ sink[i].name = n
                         /\ \E r \in Rows : sink[r].key = k /\ i \in ColumnsOf(r)}

\* C2 (Latest-wins): when two or more files hold a cell with the same partition
\* key and column name, at most one of those cells is delivered, and what is
\* delivered carries the greatest of their timestamps and the value stored
\* with it.
C2_LatestWins ==
    \A x, y \in Places :
        (x[1] # y[1] /\ IsCell(x) /\ IsCell(y) /\ KeyOf(x) = KeyOf(y)
            /\ CellAt(x).name = CellAt(y).name)
        => /\ Cardinality(Deliveries(KeyOf(x), CellAt(x).name)) <= 1
           /\ \A i \in Deliveries(KeyOf(x), CellAt(x).name) :
                 /\ \A z \in VersionsOf(KeyOf(x), CellAt(x).name) : sink[i].ts >= CellAt(z).ts
                 /\ \E z \in VersionsOf(KeyOf(x), CellAt(x).name) :
                       /\ sink[i].ts = CellAt(z).ts
                       /\ sink[i].data = IF CellAt(z).empty THEN 0 ELSE Val(z[1], z[2], z[3])

\* Every file lists its columns under strictly increasing names.
StrictNames ==
    \A x, y \in Places :
        (x[1] = y[1] /\ x[2] = y[2] /\ x[3] < y[3]) => CellAt(x).name < CellAt(y).name

\* C3 (At-most-one live version): with files that list each partition once and
\* its columns under strictly increasing names, a call of next that returns
\* true has made exactly one new_row call, before any column of the call, and
\* no column name is delivered twice within a row.
C3_AtMostOneLiveVersion ==
    StrictNames =>
        /\ \A e \in Returns : sink[e].ret =>
              /\ Cardinality(CallOf(e) \cap Rows) = 1
              /\ \A r \in CallOf(e) \cap Rows :
                    \A i \in CallOf(e) : IsColumn(sink[i]) => r < i
        /\ \A r \in Rows : \A i, j \in ColumnsOf(r) : i # j => sink[i].name # sink[j].name

\* C4 (Row tombstone shadowing): when a file holds a partition-level deletion at
\* T_d for a key, no cell of that key with ts <= T_d is delivered from any file;
\* and once the partition has been read through, a cell that is not a deletion
\* marker, is newer than every such T_d, is the newest of its name and has no
\* range tombstone in its partition, has been delivered.
C4_RowTombstoneShadowing ==
    \A r \in Rows :
        /\ \A i \in ColumnsOf(r) : \A d \in DeletionsOf(sink[r].key) : sink[i].ts > d
        /\ RecordsOf(r) # {} =>
              \A x \in CellsOfKey(sink[r].key) :
                  (/\ CellAt(x).kind \in {"live", "exp"}
                   /\ DeletionsOf(sink[r].key) # {}
                   /\ \A d \in DeletionsOf(sink[r].key) : CellAt(x).ts > d
                   /\ \A y \in CellsOfKey(sink[r].key) :
                         /\ CellAt(y).kind # "rt"
                         /\ (y # x /\ CellAt(y).name = CellAt(x).name)
                                => CellAt(y).ts < CellAt(x).ts)
                  => \E i \in ColumnsOf(r) :
                        sink[i].name = CellAt(x).name /\ sink[i].ts = CellAt(x).ts

\* The turns of the column loop, and the partition each belongs to.
Matched == {m \in DOMAIN sink : sink[m].op = "matched"}
Records == {j \in DOMAIN sink : sink[j].op = "next_record"}
RowOf(j) == CHOOSE r \in Rows : r < j /\ \A m \in (r + 1)..j : sink[m].op # "new_row"

\* The turn chose a cell that passes the first two tests of the emit decision.
ChoseCell(m) == ~sink[m].range_tombstone /\ ~sink[m].deleted /\ sink[m].name # 0
DeliveredAt(m) == m < Len(sink) /\ IsColumn(sink[m + 1])
\* The run ended within the turn (the reader failed on the payload).
EndedAt(m) == m = Len(sink)
Newer(ts, d) == d = STILL_ACTIVE \/ d < ts

RECURSIVE Watermark(_, _, _)
Watermark(d, tombstones, rest) ==
    IF rest = {} THEN d
    ELSE Watermark(IF Newer(tombstones[MinOf(rest)], d) THEN tombstones[MinOf(rest)] ELSE d,
                   tombstones, rest \ {MinOf(rest)})

Exhausted == sink # <<>> /\ sink[Len(sink)].op = "next" /\ ~sink[Len(sink)].ret

\* A key whose partitions hold deletions and nothing else.
PureTombstone(k) ==
    /\ PartsOfKey(k) # {}
    /\ \A x \in CellsOfKey(k) : CellAt(x).kind \in {"del", "rt"}
    /\ DeletionsOf(k) # {} \/ CellsOfKey(k) # {}

\* C7 (Pure-tombstone suppression): for a partition whose only content in all
\* files is deletions (partition tombstone, cell deletion markers, range
\* tombstones) no new_row call is made with its key, and once the iteration that
\* covers the key has run to its end the partition was skipped exactly once.
C7_PureTombstoneSuppression ==
    \A k \in Keys : PureTombstone(k) =>
        /\ \A r \in Rows : sink[r].key # k
        /\ (Exhausted /\ (start = <<"begin">> \/ Before(start[2], k) <= 0))
              => Cardinality({j \in DOMAIN sink : /\ sink[j].op = "next_record"
                                                  /\ sink[j].key = k
                                                  /\ ~sink[j].ret}) = 1

\* C8 (Row liveness rule): when the columns of a partition are exhausted, the
\* partition is reported (next returns true for it) exactly if a column was
\* delivered or no matched reader carries a partition deletion time; otherwise
\* it is counted in skipped_records and the same call of next goes on to the
\* following partition.
C8_RowLivenessRule ==
    /\ \A j \in Records :
          /\ sink[j].has_columns = (\E i \in ColumnsOf(RowOf(j)) : i < j)
          /\ (sink[j].marked_for_deletion = STILL_ACTIVE)
                = (sink[RowOf(j)].deletions \subseteq {STILL_ACTIVE})
          /\ sink[j].ret = (sink[j].has_columns \/ sink[j].marked_for_deletion = STILL_ACTIVE)
          /\ sink[j].ret => (j < Len(sink) /\ sink[j + 1].op = "next" /\ sink[j + 1].ret)
          /\ (~sink[j].ret /\ j < Len(sink))
                => \/ sink[j + 1].op = "new_row"
                   \/ sink[j + 1].op = "next" /\ ~sink[j + 1].ret
    /\ \A e \in Returns : sink[e].ret => (sink[e - 1].op = "next_record" /\ sink[e - 1].ret)
    /\ m_skippedRecords = Cardinality({j \in Records : ~sink[j].ret})

\* A call of next skipped a deleted partition and went on to report a later one.
C8_Witness ==
    \E e \in Returns :
        /\ sink[e].ret
        /\ \E j \in CallOf(e) \cap Records : ~sink[j].ret
        /\ m_skippedRecords >= 1

\* The iterator begin() returns for the files, for each order of its sort.
BeginIterators ==
    {[m_tables |-> o, m_next_table |-> 0, m_active_tables |-> {},
      m_skippedRecords |-> 0, m_cassandraReadRecords |-> 0, sink |-> <<>>,
      fault |-> "none", standing |-> 0] :
        o \in SortedOrders(Kept([f \in 1..NumFiles |->
                                    [t |-> init(create_table(f)), ret |-> TRUE]], 1))}

\* The iterator after calls of next until one returns false (or the run ends).
RECURSIVE drain(_)
drained(r) == IF r.it.fault = "none" /\ r.ret THEN drain(r.it) ELSE r.it
drain(it) == drained(next(it))

\* The callbacks in a log that belong to the partitions next reported.
Reported(log, i) ==
    \E j \in (i + 1)..Len(log) :
        /\ log[j].op = "next_record" /\ log[j].ret
        /\ \A m \in (i + 1)..j : log[m].op # "new_row"
RECURSIVE Output(_, _)
Output(log, i) ==
    IF i > Len(log) THEN <<>>
    ELSE (IF log[i].op = "new_row" /\ Reported(log, i)
          THEN <<[op |-> "new_row", key |-> log[i].key]>>
          ELSE IF IsColumn(log[i]) /\ Reported(log, i) THEN <<log[i]>> ELSE <<>>)
         \o Output(log, i + 1)

\* The part of an output from the first partition at or after key K on.
AtOrAfter(out, K) == {i \in DOMAIN out : out[i].op = "new_row" /\ Before(K, out[i].key) <= 0}
SuffixFrom(out, K) ==
    IF AtOrAfter(out, K) = {} THEN <<>> ELSE SubSeq(out, MinOf(AtOrAfter(out, K)), Len(out))

\* C9 (Resume correctness): the rows and columns that find(K), iterated to its
\* end, produces are the part of what begin(), iterated to its end, produces
\* from the first partition at or after K on.
C9_ResumeCorrectness ==
    (start[1] = "find" /\ phase = "iter" /\ Exhausted)
    => \/ \E b \in BeginIterators : drain(b).fault # "none"
       \/ \E b \in BeginIterators :
             Output(sink, 1) = SuffixFrom(Output(drain(b).sink, 1), start[2])

\* The cells a callback may have delivered: same partition key, name, timestamp
\* and value.
SourcesOf(r, i) ==
    {x \in CellsOfKey(sink[r].key) :
        /\ IsCell(x)
        /\ CellAt(x).name = sink[i].name
        /\ CellAt(x).ts = sink[i].ts
        /\ sink[i].data = IF CellAt(x).empty THEN 0 ELSE Val(x[1], x[2], x[3])}

\* C10 (Cell delivery callback): every delivered cell is delivered by exactly
\* one callback; an expiring cell by new_column_with_ttl with the ttl and the
\* absolute expiration time stored with that cell, any other cell by
\* new_column; for files of the old formats and of the modern one.
C10_CellDeliveryCallback ==
    \A r \in Rows :
        /\ \A i \in ColumnsOf(r) :
              \E x \in SourcesOf(r, i) :
                  IF CellAt(x).kind = "exp"
                  THEN /\ sink[i].op = "new_column_with_ttl"
                       /\ sink[i].ttl = CellAt(x).ttl
                       /\ sink[i].expiration = CellAt(x).expiration
                  ELSE sink[i].op = "new_column"
        /\ \A i, j \in ColumnsOf(r) :
              (i # j /\ sink[i].data # 0) => sink[i].data # sink[j].data

\* What a caller of next() sees in a log: the callbacks made on its row and the
\* values next() returned.
IsCallback(e) == e.op \in {"new_row", "new_column", "new_column_with_ttl", "next"}
Callbacks(log) ==
    [i \in DOMAIN SelectSeq(log, IsCallback) |->
        IF SelectSeq(log, IsCallback)[i].op = "new_row"
        THEN [op |-> "new_row", key |-> SelectSeq(log, IsCallback)[i].key]
        ELSE SelectSeq(log, IsCallback)[i]]

\* C11 (get_next_key is a non-consuming peek): wherever the program stands
\* between two calls of next(), a call of get_next_key leaves unchanged the
\* callbacks and return values that the calls of next() from there on produce;
\* a second call of get_next_key returns what the first returned; and a key
\* returned is the key of the partition next() reports first with new_row.
C11_NonConsumingPeek ==
    (phase = "iter" /\ get_next_key(The_iterator).it.fault = "none")
    => /\ Callbacks(drain(get_next_key(The_iterator).it).sink)
             = Callbacks(drain(The_iterator).sink)
       /\ drain(get_next_key(The_iterator).it).fault = drain(The_iterator).fault
       /\ get_next_key(get_next_key(The_iterator).it).ret = get_next_key(The_iterator).ret
       /\ get_next_key(get_next_key(The_iterator).it).key = get_next_key(The_iterator).key
       /\ get_next_key(The_iterator).ret
             => /\ Len(next(get_next_key(The_iterator).it).it.sink) > Len(sink)
                /\ next(get_next_key(The_iterator).it).it.sink[Len(sink) + 1].op = "new_row"
                /\ next(get_next_key(The_iterator).it).it.sink[Len(sink) + 1].key
                       = get_next_key(The_iterator).key[1]

\* C12 (Statistics): after any calls of next(), read_records is the number of
\* distinct partitions examined so far, skipped_records the number of those
\* dropped as wholly deleted, skipped_records <= read_records, and the calls
\* of next() that returned true number read_records - skipped_records.
C12_Statistics ==
    phase = "iter"
    => /\ m_cassandraReadRecords = Cardinality({sink[r].key : r \in Rows})
       /\ m_skippedRecords = Cardinality({sink[j].key : j \in {i \in Records : ~sink[i].ret}})
       /\ m_skippedRecords <= m_cassandraReadRecords
       /\ Cardinality({e \in Returns : sink[e].ret})
             = m_cassandraReadRecords - m_skippedRecords

\* The entries of the directory being opened, and the partitioner class the
\* -Statistics.db of an entry determines.
Listed == DOMAIN opening.listing
Disagree(i, j) ==
    \/ opening.listing[i].keyspace # opening.listing[j].keyspace
    \/ opening.listing[i].table # opening.listing[j].table
    \/ /\ opening.listing[i].statistics # "missing"
       /\ opening.listing[j].statistics # "missing"
       /\ opening.listing[i].statistics # opening.listing[j].statistics

\* C13 (Input agreement): open returns false whenever two of the files
\* disagree on keyspace, on table name or on the partitioner their
\* -Statistics.db determines, in whatever order readdir gives the files; it
\* returns true only if all files share one partitioner.
C13_InputAgreement ==
    /\ (opening.ret \in {"true", "false"} /\ \E i, j \in Listed : Disagree(i, j))
          => opening.ret = "false"
    /\ opening.ret = "true"
          => \E P \in {"RandomPartitioner", "ByteOrderedPartitioner",
                        "OrderPreservingPartitioner", "Murmur3Partitioner"} :
                \A i \in Listed : opening.listing[i].statistics = P

\* The compressor classes CompressedBuffer knows.
KnownCompressors == {"SnappyCompressor", "LZ4Compressor", "DeflateCompressor"}

\* C14 (Setup errors are surfaced): if a file of the directory has no
\* -Statistics.db, or names an unknown partitioner class, or names an unknown
\* compression algorithm, open returns false, wherever that file stands in
\* the order of enumeration.
C14_SetupErrorsSurfaced ==
    (/\ opening.ret \in {"true", "false"}
     /\ \E i \in Listed :
           \/ opening.listing[i].statistics = "missing"
           \/ partitioner_from_name(opening.listing[i].statistics) = "nullptr"
           \/ opening.listing[i].compression \notin KnownCompressors)
    => opening.ret = "false"

\* The chunk a data byte belongs to, and the chunks the last read handled.
ChunkOf(byte) == byte \div ChunkLen
Handled(what) == {cbuf.events[j][2] : j \in {k \in DOMAIN cbuf.events : cbuf.events[k][1] = what}}

\* C15 (Checksum failure is fatal): with checksum verification enabled,
\* read_bytes returns no byte of a chunk whose stored checksum differs from
\* the computed one, and holds none in its buffer to return later; a read that
\* meets such a chunk ends in exit instead of returning; and where the
\* checksum covers the compressed bytes, such a chunk is never decompressed.
C15_ChecksumFailureFatal ==
    (cbuf # NoBuffer /\ cbuf.s_enableChecksum)
    => /\ \A j \in DOMAIN cbuf.returned :
             cbuf.returned[j] >= 0 /\ cbuf.stored[ChunkOf(cbuf.returned[j]) + 1]
       /\ ~cbuf.exited
             => \A j \in DOMAIN cbuf.buffer :
                   cbuf.buffer[j] >= 0 => cbuf.stored[ChunkOf(cbuf.buffer[j]) + 1]
       /\ (\E i \in Handled("verify") \cup Handled("decompress") : ~cbuf.stored[i + 1])
             => cbuf.exited /\ cbuf.returned = <<>>
       /\ cbuf.check_before_decompression
             => \A i \in Handled("decompress") : cbuf.stored[i + 1]

\* A read that spanned two chunks returned its bytes, and another read met a
\* chunk with a wrong checksum and ended the process.
C15_Witness ==
    /\ cbuf # NoBuffer /\ cbuf.s_enableChecksum
    /\ cbuf.exited
    /\ Handled("verify") # {}
    /\ \E i \in Handled("verify") : cbuf.stored[i + 1]
    /\ cbuf.file_offset > 0

\* C18 (Varint round-trip): for each of the sampled values, read_unsigned_vint
\* on the unsigned-varint encoding of the value returns the value, consumes
\* exactly the encoded bytes and does not set EOF, under UncompressedBuffer
\* and under CompressedBuffer.
C18_VarintRoundTrip ==
    (vint # <<>> /\ vint.retval # <<>> /\ vint.v \in Sampled)
    => /\ vint.retval = vint.v
       /\ vint.pos = Len(write_unsigned_vint(vint.v))
       /\ ~vint.iseof

\* The int64_t that 8 bytes read as little-endian.
LittleEndian(token) == [j \in 1..8 |-> token[9 - j]]

\* C19 (Murmur3 boundary): assign_token stores no token whose little-endian
\* signed 64-bit reading is INT64_MIN; when the finalized hash h1 is INT64_MIN
\* the token reads INT64_MAX, and for every other h1 the token reads h1.
C19_Murmur3Boundary ==
    (hashed # <<>> /\ hashed.token # <<>>)
    => /\ LittleEndian(hashed.token) # INT64_MIN
       /\ hashed.h1 = INT64_MIN => LittleEndian(hashed.token) = INT64_MAX
       /\ hashed.h1 # INT64_MIN => LittleEndian(hashed.token) = hashed.h1

\* The token of the hash INT64_MIN has been stored.
C19_Witness ==
    /\ hashed # <<>>
    /\ hashed.h1 = INT64_MIN
    /\ hashed.token = <<255, 255, 255, 255, 255, 255, 255, 127>>

\* The values of the cells the files hold whole.
WholeValues == {Val(x[1], x[2], x[3]) : x \in Places}

\* C16 (Structural EOF mid-record): where the data stream of a reader ends
\* inside a partition header or a cell, no crash and no assertion failure
\* occurs; no cell is delivered but those the files hold whole; and the rows of
\* the other reader are produced: its one cell, the newest of the run, has been
\* delivered when the iteration has run to its end.
C16_StructuralEOF ==
    /\ phase \notin {"crash", "abort"}
    /\ \A i \in DOMAIN sink : IsColumn(sink[i]) => sink[i].data \in WholeValues
    /\ Exhausted => \E i \in DOMAIN sink : IsColumn(sink[i]) /\ sink[i].data = Val(2, 1, 1)

\* The calls of next a copy of the iterator made have changed no reader of the
\* original, and the calls of the original no reader of the copy.
Independent == m_tables = twin.own /\ twin.it.m_tables = twin.theirs

\* C17 (Duplicate independence): after the iterator was copied, the calls of
\* next on the copy leave the decode position and the buffer of each reader of
\* the original as they were, and the rows the original goes on to produce are
\* those it would produce from its readers as its own calls left them; and
\* likewise for the copy under the calls on the original.
C17_DuplicateIndependence ==
    (phase = "iter" /\ twin # <<>>)
    => /\ Independent
       /\ Callbacks(drain(The_iterator).sink)
             = Callbacks(drain([The_iterator EXCEPT !.m_tables = twin.own]).sink)
       /\ Callbacks(drain(twin.it).sink)
             = Callbacks(drain([twin.it EXCEPT !.m_tables = twin.theirs]).sink)

\* The keys of the rows in the order the iterator gives them: those the writer
\* has drawn, then those the iterator has yet to give.
NewRowKeys(log) == [i \in DOMAIN SelectSeq(log, LAMBDA e : e.op = "new_row") |->
                       SelectSeq(log, LAMBDA e : e.op = "new_row")[i].key]
OutputOrder == transfer.read \o SubSeq(NewRowKeys(drain(The_iterator).sink),
                                       Len(NewRowKeys(sink)) + 1,
                                       Len(NewRowKeys(drain(The_iterator).sink)))

\* The places in that order of the rows read and not written, and of the rows
\* not read.
NotWritten == {r.index : r \in Range(transfer.failed_requests) \cup transfer.refused}
NotRead == (Len(transfer.read) + 1)..Len(OutputOrder)

\* C20 (Resume key on suspend): when a transfer that was told to terminate has
\* ended, a key is printed if a row was read and not written (its write failed
\* and it waits to be sent again, or Aerospike refused it) or a row is not yet
\* read, and the key printed stands, in the order of the iterator's output, at
\* or before each of those rows.
C20_ResumeKeyOnSuspend ==
    (transfer # <<>> /\ phase = "iter" /\ transfer.s_terminated /\ transfer.printed # <<>>)
    => \A q \in NotWritten \cup NotRead :
          /\ transfer.printed[1].ret
          /\ \E at \in 1..q : OutputOrder[at] = transfer.printed[1].key[1]

\* C21: whatever the number of event loops, and with no mutex when there is
\* one, at most one thread stands in the iterator's getCassandraReadRecords
\* and next at any time, the main thread's report included.
InIterator == {t \in DOMAIN threads.pc : threads.pc[t] \in {"next", "report"}}

C21_SerializedIterator == threads # <<>> => Cardinality(InIterator) <= 1

\* One event loop, so no mutex: its thread is in the iterator for a row drawn
\* from a listener, while the main thread waits for the writers.
C21_Witness ==
    /\ threads # <<>> /\ threads.numEventLoops = 1
    /\ threads.pc[1] = "next" /\ threads.where = "wait"

\* C22: whenever read_column has returned false, for either reader and every
\* format version, the reader's state machine is in READ_ROW.
C22_ReaderParking ==
    (reader # <<>> /\ reader.last = "read_column" /\ ~reader.ret /\ reader.t.fault = "none")
        => reader.t.fsm = "READ_ROW"

\* C23: over well-formed files, partitions without cells and partitions that
\* are only a row tombstone included, no sequence of calls of next reaches a
\* reader's assert on its state machine with the state machine elsewhere.
C23_FsmAssertions == \A i \in DOMAIN m_tables : m_tables[i].fault # "assert"

\* C24: between the calls a reader's index is in m_active_tables exactly if
\* the reader has its data buffer open, has decoded the header of a partition
\* and has not reached the end of its file; and every reader a call merged
\* into a row was in m_active_tables.
ActiveReader(i) ==
    m_tables[i + 1].isopen /\ ~m_tables[i + 1].eof /\ m_tables[i + 1].p >= 1

ActiveExactly ==
    \A i \in 0..(Len(m_tables) - 1) : i \in m_active_tables <=> ActiveReader(i)

MergedActive == \A r \in Rows : sink[r].inactive = {}

C24_ActiveSet == phase = "iter" => (ActiveExactly /\ MergedActive)

\* The range tombstones of the partitions merged into the row announced at r.
RowTombstones(r) ==
    {x \in Places : <<x[1], x[2]>> \in sink[r].from /\ CellAt(x).kind = "rt"}

\* The map at the emit decision m holds, for each end key, a timestamp of a
\* range tombstone of the row with that end key, and no less than that of any
\* such tombstone its reader has presented and the merge has not passed.
GreatestFolded(m, r) ==
    /\ \A k \in DOMAIN sink[m].tombstones :
          \E x \in RowTombstones(r) :
              CellAt(x).end = k /\ CellAt(x).ts = sink[m].tombstones[k]
    /\ \A x \in RowTombstones(r) :
          (CellAt(x).name <= sink[m].name /\ sink[m].name <= CellAt(x).end)
          => /\ CellAt(x).end \in DOMAIN sink[m].tombstones
             /\ sink[m].tombstones[CellAt(x).end] >= CellAt(x).ts

\* C25: at every emit decision of next_record, minTime is the greatest of
\* marked_for_deletion and the timestamps held in the map of range tombstones
\* (STILL_ACTIVE counting as absent), and the map holds for each end key the
\* greatest timestamp folded for it.
C25_DeletionWatermark ==
    \A m \in Matched :
        /\ sink[m].minTime = Watermark(sink[m].marked_for_deletion, sink[m].tombstones,
                                       DOMAIN sink[m].tombstones)
        /\ GreatestFolded(m, RowOf(m))

\* Two range tombstones with the same end key and different timestamps were
\* folded in a partition with a deletion time: the map holds the greater and
\* minTime is above marked_for_deletion.
C25_Witness ==
    \E m \in Matched : \E x, y \in RowTombstones(RowOf(m)) :
        /\ CellAt(x).end = CellAt(y).end /\ CellAt(x).ts < CellAt(y).ts
        /\ CellAt(y).end \in DOMAIN sink[m].tombstones
        /\ sink[m].tombstones[CellAt(y).end] = CellAt(y).ts
        /\ sink[m].marked_for_deletion # STILL_ACTIVE
        /\ sink[m].minTime > sink[m].marked_for_deletion

\* The records of the summary of file f that are not ordered after the key
\* (0-based), the summary of a file of the family being its partitions' keys.
NotAfter(f, key) == {j \in 0..(Len(files[f].parts) - 1) : Before(files[f].parts[j + 1].key, key) <= 0}

\* C26: for a summary of one record or more, sorted under the partitioner, and
\* any target, find_partition_in_summary finds the greatest record whose key is
\* not after the target, and returns false (-1 here) exactly if there is none.
C26_SummarySearch ==
    start[1] = "find" =>
        \A f \in DOMAIN files :
            find_partition_in_summary(create_table(f), assign_token(start[2]), start[2])
                = IF NotAfter(f, start[2]) = {} THEN -1
                  ELSE CHOOSE j \in NotAfter(f, start[2]) : \A i \in NotAfter(f, start[2]) : i <= j

\* The partitions of file f that are not ordered before the key (1-based).
NotBefore(f, key) == {j \in 1..Len(files[f].parts) : Before(key, files[f].parts[j].key) <= 0}

\* The reader that find() kept for file f stands at partition j.
KeptAt(f, j) ==
    \E i \in DOMAIN m_tables :
        /\ m_tables[i].f = f
        /\ m_tables[i].next_key_value = files[f].parts[j].key
        /\ m_tables[i].start_offset = j - 1

\* C27: init_at_key returns true only for a file with a partition at or after
\* the target, and then next_key and start_offset are those of the first such
\* partition; for a file whose partitions are all before the target it returns
\* false.  (find() keeps the readers for which init_at_key returned true.)
C27_IndexPositioning ==
    (start[1] = "find" /\ phase = "iter" /\ sink = <<>> /\ m_next_table = 0) =>
        \A f \in DOMAIN files :
            IF NotBefore(f, start[2]) = {}
            THEN \A i \in DOMAIN m_tables : m_tables[i].f # f
            ELSE KeptAt(f, MinOf(NotBefore(f, start[2])))

\* The step is a call of read_bytes(n_bytes).
IsRead(n_bytes) ==
    /\ cbuf # NoBuffer /\ ~cbuf.exited
    /\ cbuf' = read_bytes([cbuf EXCEPT !.events = <<>>, !.returned = <<>>], n_bytes)

\* What a flat stream of uncompressed_len bytes does on read_bytes(n_bytes) at
\* the logical offset p: the bytes p .. p + n_bytes - 1 and the offset moved
\* behind them, or the end of the stream and no byte.
FlatRead(p, n_bytes) ==
    IF p + n_bytes <= cbuf.uncompressed_len
    THEN /\ cbuf'.returned = [j \in 1..n_bytes |-> p + j - 1]
         /\ cbuf'.file_offset = p + n_bytes
    ELSE /\ cbuf'.returned = <<>> /\ cbuf'.iseof
         /\ cbuf'.file_offset = p

\* C28: after any sequence of seek, skip_bytes and read_bytes, a read_bytes(n)
\* issued at the logical offset p returns the n bytes from p of the
\* decompressed data and moves the offset to p + n, whatever the chunks and
\* whatever the buffer held; a read behind the uncompressed length returns the
\* end of the stream.  (A read that ends in exit(-1) on a checksum returns
\* nothing.)
C28_FlatStream ==
    [][\A n_bytes \in 1..MaxBytes :
          IsRead(n_bytes) => (cbuf'.exited \/ FlatRead(cbuf.file_offset, n_bytes))]_vars

\* A read that crossed from one chunk into the next and kept the bytes the
\* buffer already held of the first: the window does not start at a chunk.
C28_Witness ==
    /\ cbuf # NoBuffer /\ ~cbuf.exited
    /\ Len(cbuf.returned) >= 2 /\ cbuf.events # <<>>
    /\ cbuf.buffer_offset % ChunkLen # 0
    /\ cbuf.returned[1] \div ChunkLen # cbuf.returned[Len(cbuf.returned)] \div ChunkLen

\* The events of the last read_bytes that handled chunk i, in their order.
OfChunk(i) == SelectSeq(cbuf.events, LAMBDA e : e[2] = i)
Order(i) == [j \in DOMAIN OfChunk(i) |-> OfChunk(i)[j][1]]
Touched == {cbuf.events[j][2] : j \in DOMAIN cbuf.events}
VerifiedCompressed == \A i \in Touched : Order(i)[1] = "verify"
VerifiedUncompressed == \A i \in Touched : Order(i) = <<"decompress", "verify">>

\* C29 as claimed: the buffer SStable::open builds verifies Adler-32 over the
\* compressed bytes of a chunk for JB <= version < MA, and CRC-32 over the
\* bytes decompressed from it for version >= MA.
C29_ChecksumSelection ==
    cbuf # NoBuffer =>
        /\ (cbuf.version >= VERSION_JB /\ cbuf.version < VERSION_MA)
              => (cbuf.checksum_class = "ADLER32" /\ VerifiedCompressed)
        /\ cbuf.version >= VERSION_MA
              => (cbuf.checksum_class = "CRC32" /\ VerifiedUncompressed)

\* C29 as amended: Adler-32 for JB <= version < MA and CRC-32 for
\* version >= MA, and in both cases the checksum is verified over the
\* compressed bytes, before the chunk is decompressed.
C29_Amended ==
    cbuf # NoBuffer =>
        /\ (cbuf.version >= VERSION_JB /\ cbuf.version < VERSION_MA)
              => (cbuf.checksum_class = "ADLER32" /\ VerifiedCompressed)
        /\ cbuf.version >= VERSION_MA
              => (cbuf.checksum_class = "CRC32" /\ VerifiedCompressed)

\* A read on a file of version MA, checksums enabled, verified a chunk and
\* then decompressed it.
C29_Witness ==
    /\ cbuf # NoBuffer /\ cbuf.s_enableChecksum /\ ~cbuf.exited
    /\ cbuf.version >= VERSION_MA
    /\ \E i \in Touched : Order(i) = <<"verify", "decompress">>
    /\ cbuf.returned # <<>>

\* The names of the columns present in the row under the reader, in the
\* order of the schema.
Present == [i \in 1..Len(CellsOf(reader.t)) |-> CellsOf(reader.t)[i].name]

\* C30: within one row read by NewSStable the cells presented by read_row's
\* and the following read_column calls are the columns marked in
\* columns_present, each once, in the order of the schema and under its own
\* name, with HAS_EMPTY_VALUE or without, with read_column_data called or
\* not; read_column returns false right after the last of them.
C30_ColumnCursor ==
    (/\ reader # <<>> /\ reader.t.ver = "MA"
     /\ reader.last \in {"read_row", "read_column", "read_column_data"}
     /\ ~reader.t.eof)
    => /\ reader.t.fault = "none"
       /\ Len(reader.cells) <= Len(Present)
       /\ reader.cells = SubSeq(Present, 1, Len(reader.cells))
       /\ (reader.last = "read_column" /\ ~reader.ret) => reader.cells = Present

\* C31 Graceful termination.  A writer is quiet when it has no request in
\* flight and no thread stands inside its write_next.
InWriteNext(w) ==
    \E t \in 0..threads.numEventLoops : threads.pc[t] # "idle" /\ threads.pc[t] # "report"
                                          /\ threads.writer[t] = w

Quiet(w) == threads.writers[w].requests_in_flight = 0 /\ ~InWriteNext(w)

\* C31 as stated: once terminate() has been called no thread stands on the way
\* to iterator.next or to a write, and every quiet writer that do_transfer has
\* started is FINISHED.
C31_GracefulTermination ==
    (threads # <<>> /\ threads.s_terminated /\ threads.where # "start") =>
        /\ \A t \in 0..threads.numEventLoops : threads.pc[t] \notin {"lock", "next", "write"}
        /\ \A w \in 1..threads.numEventLoops :
              Quiet(w) => threads.writers[w].writerStatus = "FINISHED"

\* C31 as the code has it: once terminate() has been called, no write_next
\* passes its test of terminated() towards the iterator or a write (a call that
\* passed the test before the signal finishes its row); a quiet writer is
\* FINISHED, or STALLED until the main thread calls its write_next; and
\* wait_for_writers returns, with every writer FINISHED.
C31_Amended ==
    /\ [][\A t \in 0..threads.numEventLoops :
             (threads.s_terminated /\ threads.pc[t] = "try_another_row")
                 => threads'.pc[t] \in {"try_another_row", "idle"}]_vars
    /\ [](threads.s_terminated =>
             \A w \in 1..threads.numEventLoops :
                Quiet(w) => threads.writers[w].writerStatus \in {"FINISHED", "STALLED"})
    /\ [](threads.where = "done" =>
             \A w \in 1..threads.numEventLoops :
                threads.writers[w].writerStatus = "FINISHED")
    /\ (threads.s_terminated ~> threads.where = "done")

\* A transfer ended by the signal with a request still waiting for its resend.
C31_Witness ==
    /\ threads # <<>> /\ threads.s_terminated /\ threads.where = "done"
    /\ threads.rows > 0
    /\ \E w \in 1..threads.numEventLoops : threads.writers[w].failed_requests > 0

\* C32 Writer status invariant: a writer observed between callbacks (no thread
\* inside its write_next) with requests in flight is RUNNING; a step that
\* changes its status to FINISHED or STALLED leaves it with no request in
\* flight; a writer FINISHED while terminate() has not been called has no
\* failed request queued.
C32_WriterStatus ==
    /\ [](\A w \in 1..threads.numEventLoops :
             /\ (~InWriteNext(w) /\ threads.writers[w].requests_in_flight > 0)
                    => threads.writers[w].writerStatus = "RUNNING"
             /\ (threads.writers[w].writerStatus = "FINISHED" /\ ~threads.s_terminated)
                    => threads.writers[w].failed_requests = 0)
    /\ [][\A w \in 1..threads.numEventLoops :
             (/\ threads'.writers[w].writerStatus # threads.writers[w].writerStatus
              /\ threads'.writers[w].writerStatus \in {"FINISHED", "STALLED"})
                 => threads'.writers[w].requests_in_flight = 0]_vars

\* A transfer that met a transient error, was restarted and ended by itself.
C32_Witness ==
    /\ threads # <<>> /\ ~threads.s_terminated /\ threads.where = "done"
    /\ threads.errors > 0 /\ threads.numEventLoops > 1
    /\ \A w \in 1..threads.numEventLoops : threads.writers[w].writerStatus = "FINISHED"

C39_WriterLiveness ==
    /\ <>(threads.s_terminated
            \/ (/\ threads.where = "done"
                /\ \A w \in 1..threads.numEventLoops :
                      threads.writers[w].writerStatus = "FINISHED"))
    /\ \A w \in 1..MaxLoops :
          (threads.numEventLoops >= w /\ threads.where # "start"
              /\ threads.writers[w].writerStatus = "STALLED")
            ~> (threads.numEventLoops < w \/ threads.writers[w].writerStatus # "STALLED")

\* A transfer that used up its transient errors, read every row and ended
\* without the signal.
C39_Witness ==
    /\ threads # <<>> /\ ~threads.s_terminated /\ threads.where = "done"
    /\ threads.errors = MaxErrors /\ threads.rows = 0

\* The ids of the row objects in each of the three places.
IdsOf(rows) == {rows[i].id : i \in DOMAIN rows}

InFlightIds == {r.id : r \in transfer.in_flight}

\* C34 Row ownership: between the callbacks of a transfer every row object
\* made so far is in exactly one of the three places (owned by Aerospike, in
\* failed_requests, in spare_requests) and there once; requests_in_flight is
\* the number of rows Aerospike owns; and every row of spare_requests has an
\* empty key and no column.
C34_RowOwnership ==
    (transfer # <<>> /\ phase = "iter") =>
        /\ Cardinality(InFlightIds) = Cardinality(transfer.in_flight)
        /\ Cardinality(IdsOf(transfer.failed_requests)) = Len(transfer.failed_requests)
        /\ Cardinality(IdsOf(transfer.spare_requests)) = Len(transfer.spare_requests)
        /\ InFlightIds \cap IdsOf(transfer.failed_requests) = {}
        /\ InFlightIds \cap IdsOf(transfer.spare_requests) = {}
        /\ IdsOf(transfer.failed_requests) \cap IdsOf(transfer.spare_requests) = {}
        /\ InFlightIds \cup IdsOf(transfer.failed_requests)
              \cup IdsOf(transfer.spare_requests) = 1..transfer.allocated
        /\ transfer.requests_in_flight = Cardinality(transfer.in_flight)
        /\ \A i \in DOMAIN transfer.spare_requests :
              /\ transfer.spare_requests[i].key = 0
              /\ transfer.spare_requests[i].columns = <<>>

\* A row object in its second use is with Aerospike while another waits for
\* its resend.
C34_Witness ==
    /\ transfer # <<>> /\ phase = "iter"
    /\ transfer.failed_requests # <<>>
    /\ \E r \in transfer.in_flight : r.index > r.id /\ r.columns # <<>>

\* C38 Transfer accounting: when do_transfer has printed its summary, the
\* count exported is the number of rows whose write the listener acknowledged
\* without an error, the count failed is the number of rows given up after an
\* error that is not transient, and exported, failed, already existing,
\* expired and still queued for resend add up to the rows iterator.next
\* returned.
C38_TransferAccounting ==
    (transfer # <<>> /\ phase = "iter" /\ transfer.printed # <<>>) =>
        /\ transfer.printed[1].exported = Cardinality(transfer.written)
        /\ transfer.printed[1].failed = Cardinality(transfer.refused)
        /\ transfer.printed[1].exported + transfer.printed[1].failed
              + transfer.printed[1].existing + transfer.expired_entries
              + Len(transfer.failed_requests) = Len(transfer.read)

\* The rows that hold what the iterator delivered: those Aerospike owns, those
\* queued for resend, and those that left by one of the four ways out.
KeptRows(x) ==
    x.in_flight \cup Range(x.failed_requests) \cup x.written \cup x.existing
        \cup x.refused \cup x.expired

\* C40: a row whose write fails with a transient error, from write or from
\* write_listener, is put in failed_requests with its key and columns as the
\* iterator delivered them, and the writer draws no new row from the iterator
\* while a failed request is queued; a row that was read is always in flight,
\* queued for resend, or gone by an acknowledged write, "record exists", an
\* error that is not transient, or being expired already.
C40_TransientFailuresKeepRow ==
    /\ [][(transfer # <<>> /\ transfer' # <<>>) =>
              /\ KeptRows(transfer) \subseteq KeptRows(transfer')
              /\ \A row \in transfer.in_flight \ transfer'.in_flight :
                    row \in Range(transfer'.failed_requests) \cup transfer'.written
                                \cup transfer'.existing \cup transfer'.refused
              /\ Len(transfer'.read) > Len(transfer.read) =>
                    transfer.failed_requests = <<>>]_vars
    /\ [](transfer # <<>> =>
              /\ \A row \in KeptRows(transfer) :
                    /\ row.index \in 1..Len(transfer.read)
                    /\ row.key = transfer.read[row.index]
              /\ \A i \in 1..Len(transfer.read) :
                    Cardinality({row \in KeptRows(transfer) : row.index = i}) = 1
              /\ \A i, j \in 1..Len(transfer.failed_requests) :
                    transfer.failed_requests[i] = transfer.failed_requests[j] => i = j)

\* A transient error happened, and every row read was written and
\* acknowledged.
C40_Witness ==
    /\ transfer # <<>>
    /\ transfer.errors > 0
    /\ transfer.read # <<>>
    /\ transfer.failed_requests = <<>>
    /\ transfer.in_flight = {}
    /\ Cardinality(transfer.written) = Len(transfer.read)
    /\ \A row \in transfer.written : row.columns # <<>>

\* C35: a range tombstone shadows only cells named at or after its own start
\* name: a cell chosen by the merge that is newer than the partition deletion
\* and lies under no range tombstone of the merged partitions (start <= name
\* <= end key, ts <= the tombstone's) is delivered, whatever range tombstones
\* starting above its name the other files hold.
C35_RangeTombstoneScope ==
    \A m \in Matched :
        (/\ ChoseCell(m)
         /\ Newer(sink[m].ts, sink[m].marked_for_deletion)
         /\ \A x \in Places :
               (<<x[1], x[2]>> \in sink[RowOf(m)].from /\ CellAt(x).kind = "rt")
               => ~(/\ CellAt(x).name <= sink[m].name
                    /\ sink[m].name <= CellAt(x).end
                    /\ sink[m].ts <= CellAt(x).ts))
        => DeliveredAt(m) \/ EndedAt(m)

\* C36: on files of N partitions one of the first N + 1 calls of next returns
\* false; every call of next_record moves at least one reader past a
\* partition; once next has returned false, every later call of next returns
\* false and makes no callback, and get_next_key returns false.
C36_TerminationOfIteration ==
    /\ (phase = "iter" /\ Calls > TotalParts(1)) => Stops > 0
    /\ \A j \in DOMAIN sink : sink[j].op = "next" => sink[j].standing = 0
    /\ \A i, j \in DOMAIN sink :
          (i < j /\ sink[i].op = "next" /\ ~sink[i].ret)
              => (sink[j].op = "next" /\ ~sink[j].ret)
    /\ (Stops > 0 /\ peeked # <<>>) => ~peeked[1].ret

\* The readers next_table has passed whose buffer is closed.
Shut(tables, next_table) == {i \in 0..(next_table - 1) : ~tables[i + 1].isopen}

====
